---- MODULE Spec2Model ----
(***************************************************************************)
(* A model of the frame orchestration and rendering-update pipeline of the *)
(* scion 2D engine: the pre-renderer's buffer-update pass, the runner's    *)
(* game loop and its two channels, the parent/children hierarchy and the   *)
(* animation state machine.                                                *)
(***************************************************************************)
EXTENDS Integers, Sequences, FiniteSets, TLC

(***************************************************************************)
(* Bounds of the model.                                                    *)
(***************************************************************************)
\* number of entity slots of the world
NumEntities == 2

\* number of entities of the world of the hierarchy functions
HierEntities == 2

\* most modifiers of the animations of one component, taken together
MaxModifiers == 2

\* most keyframes of one modifier
MaxKeyframes == 1

\* the game loop stops after the pass of this number (passes count from 0)
MaxPasses == 2

MaxInstant == 3

MaxDelay == 3

MaxPickEntities == 4

MaxMoveKeyframes == 2

MaxX == 12

MaxWidth == 2

MaxHeight == 1

MaxDepth == 3

MaxPriorEntities == 1

MaxColorIndex == 5

NumTexts == 2

MaxScore == 2

MaxFramePasses == 2

MaxFrameDelta == 2

MaxDespawned == 2

NumSystems == 2

MaxWindowWidth == 3

MaxWindowHeight == 3

MaxScaleFactor == 2

MaxLaunchPasses == 3

MaxResumedCalls == 3

MaxApplied == 2

NumCommandEntities == 2

MaxCommands == 2

MaxCommandValue == 2

NumTransformEntities == 2

MaxCameraX == 1

MaxTime == 6

FixedInterval == 2

RenderInterval == 3

Entities == 1..NumEntities

\* "no entity": Option<Entity>::None, and the tilemap field of a non-tile
NoEntity == 0

VARIABLES
    \* ---- the world (GameData): entity -> its components
    world,
    \* ---- Scion2DPreRenderer: per-entity buffer presence, colour picking
    vertex_buffers,
    indexes_buffers,
    color_picking_storage,
    \* ---- the buffer-update pass: its result and what it started from
    updates,
    before_pass,
    \* ---- the hecs world the hierarchy functions work on
    subworld,
    \* a fatal error was raised: the process is gone
    hier_panicked,
    \* history: the entities ever spawned, those whose link was initialised
    \* for the Parent they carry, and the last link operation
    hier_ever,
    hier_linked,
    hier_last,
    \* ---- an Animations component: name -> Animation
    animations,
    \* history: the last call on the component, its result, the component before
    anim_last,
    \* ---- the runner (simulation thread): its place in the loop body, the
    \* local should_tick, the number of the pass
    pc,
    should_tick,
    pass,
    \* GameData: the entities despawned and not yet taken, the pending
    \* picking-status update, the colour-picked entity
    despawned,
    picking_update,
    color_picked_entity,
    \* the two channels, as the messages sent and not yet received
    render_channel,
    render_callback_channel,
    \* ---- the rendering thread: the messages it received, its cursor position
    rt_received,
    rt_cursor_position,
    \* history of the pass: the phases run, the categories sent, what the
    \* limiter and GameData answered; and of the last drain of the callbacks
    phase_log,
    sent_log,
    pass_facts,
    pick_last,
    \* ---- ColorPickingStorage on its own: the last call (history) and the
    \* colour each entity was given first
    pick_call,
    pick_first,
    \* ---- FrameLimiter and the clock: the instant, the instants recorded by
    \* fixed_tick and render, the position of the loop, and, as history, the
    \* numbers of fixed updates and renders, in all and in the current pass
    lim_now,
    lim_last_fixed,
    lim_last_render,
    lim_pc,
    lim_fixed_count,
    lim_render_count,
    lim_pass_fixed,
    lim_pass_render,
    \* ---- an entity with a Transform and an Animations component holding one
    \* transform animation: the component, the x of the transform, whether
    \* the animation system panicked, and, as history, the x at the last
    \* successful run_animation and the update passes since
    mv_animations,
    mv_x,
    mv_panicked,
    mv_hist,
    \* ---- a tilemap built by Tilemap::create: its dimensions and type, the
    \* positions of the tiles that have a Sprite, the depth bias the pass
    \* gave to the vertices of each tile, and where the pass is
    td_tilemap,
    td_sprites,
    td_bias,
    td_pc,
    \* the world the tilemap is created in (the components of each entity, by
    \* entity) and the entity of the tilemap
    td_world,
    td_entity,
    \* ---- one pass of launch_game_loop statement by statement: the index of
    \* the next statement, should_tick, the passes done; the Time resource,
    \* the timers, the last measured delta, the instant the limiter recorded;
    \* what is pending (window events, input edge events, one-shot world
    \* events, cursor or size requests, despawned entities); and, as history
    \* of the pass, the statements run, the scene actions and the systems
    \* dispatched, the messages sent, and whether entities were despawned
    st_pc,
    st_should_tick,
    st_pass,
    st_time,
    st_timers,
    st_delta,
    st_last_tick,
    st_window_events,
    st_inputs,
    st_world_events,
    st_window,
    st_despawned,
    st_log,
    st_scene_log,
    st_systems_log,
    st_sent,
    st_had_despawned,
    \* how many times the scene got Start (position 0 of st_pc is line 34,
    \* the call of setup before the loop)
    st_started,
    \* every despawn so far (the pass and the callback it happened in, and
    \* whether that pass ran a variable tick), and the ids of all the
    \* despawn messages sent so far
    st_ever,
    st_forwarded,
    \* whether the rendering thread still holds the receiver of the render
    \* channel, and the kinds of the sends that failed in this pass
    st_receiver,
    st_failed,
    \* ---- the start of the application: the window configuration, where
    \* Scion::run is, the thread of the game loop, the runner's window and
    \* rendering manager, the Window resource setup inserts, whether the
    \* scene got Start, the loop passes done, whether a panic ended it
    la_config,
    la_pc,
    la_thread,
    la_window,
    la_manager,
    la_resource,
    la_scene_started,
    la_passes,
    la_panicked,
    \* whether Scion holds a windowing-event sender, the windows, channels
    \* and threads resumed created, and the calls of resumed so far
    la_window_event_sender,
    la_created,
    la_resumed,
    \* ---- the transform pass: the entities of the world, the translation
    \* of the camera, the camera the pre-renderer recorded, the one it had
    \* recorded before the last pass, the updates of the last pass, and
    \* whether those are still to be sent
    tr_world,
    tr_camera,
    tr_recorded,
    tr_before,
    tr_updates,
    tr_pc,
    \* ---- the UI texts synchronised with the resources: the UiText of each
    \* entity, the resources, the texts before the last run of
    \* sync_text_value_system, the calls of synchronisation functions it
    \* made, and whether it has just run
    sx_texts,
    sx_resources,
    sx_before,
    sx_calls,
    sx_pc,
    \* ---- the command buffer: its two maps, the transform commands given
    \* since the last drain, and what the last call was and returned
    command_buffer,
    cb_since,
    cb_last

bufferVars == <<world, vertex_buffers, indexes_buffers, color_picking_storage,
                updates, before_pass>>

hierVars == <<subworld, hier_panicked, hier_ever, hier_linked, hier_last>>

animVars == <<animations, anim_last>>

runVars == <<pc, should_tick, pass, despawned, picking_update, color_picked_entity,
             render_channel, render_callback_channel, rt_received,
             rt_cursor_position, phase_log, sent_log, pass_facts, pick_last>>

pickVars == <<pick_call, pick_first>>

limVars == <<lim_now, lim_last_fixed, lim_last_render, lim_pc, lim_fixed_count,
             lim_render_count, lim_pass_fixed, lim_pass_render>>

moveVars == <<mv_animations, mv_x, mv_panicked, mv_hist>>

tileVars == <<td_tilemap, td_sprites, td_bias, td_pc, td_world, td_entity>>

stepVars == <<st_pc, st_should_tick, st_pass, st_time, st_timers, st_delta,
              st_last_tick, st_window_events, st_inputs, st_world_events,
              st_window, st_despawned, st_log, st_scene_log,
              st_systems_log, st_sent, st_had_despawned, st_started,
              st_ever, st_forwarded, st_receiver, st_failed>>

launchVars == <<la_config, la_pc, la_thread, la_window, la_manager,
                la_resource, la_scene_started, la_passes, la_panicked,
                la_window_event_sender, la_created, la_resumed>>

transformVars == <<tr_world, tr_camera, tr_recorded, tr_before, tr_updates,
                   tr_pc>>

syncVars == <<sx_texts, sx_resources, sx_before, sx_calls, sx_pc>>

commandVars == <<command_buffer, cb_since, cb_last>>

\* the state of the parts added to the model after the game loop
restVars == <<pickVars, limVars, moveVars, tileVars, stepVars, launchVars,
              transformVars, syncVars, commandVars>>

restButSync == <<pickVars, limVars, moveVars, tileVars, stepVars, launchVars,
                 transformVars, commandVars>>

restButCommand ==
    <<pickVars, limVars, moveVars, tileVars, stepVars, launchVars,
      transformVars, syncVars>>

restButTransform == <<pickVars, limVars, moveVars, tileVars, stepVars,
                      launchVars, syncVars, commandVars>>

restButLaunch ==
    <<pickVars, limVars, moveVars, tileVars, stepVars, transformVars,
      syncVars, commandVars>>

restButPick ==
    <<limVars, moveVars, tileVars, stepVars, launchVars, transformVars,
      syncVars, commandVars>>

restButLim ==
    <<pickVars, moveVars, tileVars, stepVars, launchVars, transformVars,
      syncVars, commandVars>>

restButMove ==
    <<pickVars, limVars, tileVars, stepVars, launchVars, transformVars,
      syncVars, commandVars>>

restButTile ==
    <<pickVars, limVars, moveVars, stepVars, launchVars, transformVars,
      syncVars, commandVars>>

restButStep ==
    <<pickVars, limVars, moveVars, tileVars, launchVars, transformVars,
      syncVars, commandVars>>

(***************************************************************************)
(* Maps (HashMap) as functions over their key set.                         *)
(***************************************************************************)
EmptyMap == [k \in {} |-> 0]

MapInsert(m, k, v) == [x \in (DOMAIN m) \cup {k} |-> IF x = k THEN v ELSE m[x]]

MapRemove(m, k) == [x \in (DOMAIN m) \ {k} |-> m[x]]

(***************************************************************************)
(* Components.  The six shapes go through the same generic function, and  *)
(* a tile is an entity carrying Tile and Sprite.                           *)
(***************************************************************************)
GenericKinds == {"Triangle", "Square", "Rectangle", "Sprite", "Line", "Polygon"}

Kinds == GenericKinds \cup {"UiImage", "UiText", "Tilemap", "TileSprite"}

Materials == {"None", "Color", "Texture", "Tileset"}

\* the materials an entity of each kind is spawned with
MaterialsFor(kind) ==
    CASE kind \in GenericKinds -> {"None", "Color"}
      [] kind = "UiImage" -> {"None", "Texture"}
      [] kind = "UiText" -> {"None", "Color", "Texture"}
      [] kind = "Tilemap" -> {"Tileset"}
      [] kind = "TileSprite" -> {"None"}

Absent == [alive |-> FALSE, kind |-> "None", dirty |-> FALSE,
           material |-> "None", tilemap |-> NoEntity]

\* the query (&mut T, &Material, &Transform)
HasComponent(w, e, T) == w[e].alive /\ w[e].kind = T

HasMaterial(w, e) == w[e].material # "None"

\* Renderable2D::dirty and Renderable2D::set_dirty of a component that
\* stores its flag
dirty(w, e) == w[e].dirty

set_dirty(w, e, is_dirty) == [w EXCEPT ![e].dirty = is_dirty]

(***************************************************************************)
(* Scion2DPreRenderer's buffer registry.                                   *)
(***************************************************************************)
missing_vertex_buffer(s, e) == e \notin s.vb

missing_indexes_buffer(s, e) == e \notin s.ib

upsert_vertex_buffer(s, e) == [s EXCEPT !.vb = @ \cup {e}]

upsert_indexes_buffer(s, e) == [s EXCEPT !.ib = @ \cup {e}]

VertexBuffer(e, contents) == [type |-> "VertexBuffer", entity |-> e, contents |-> contents]

IndexBuffer(e, contents) == [type |-> "IndexBuffer", entity |-> e, contents |-> contents]

push(s, u) == [s EXCEPT !.up = Append(@, u)]

(***************************************************************************)
(* ColorPickingStorage.                                                    *)
(***************************************************************************)
\* Color::new_rgb, Color::as_u32 and Color::color_from_u32: a colour is its
\* three channels, its u32 their concatenation
new_rgb(r, g, b) == [r |-> r, g |-> g, b |-> b]

as_u32(color) == color.r * 65536 + color.g * 256 + color.b

color_from_u32(index) ==
    new_rgb((index \div 65536) % 256, (index \div 256) % 256, index % 256)

DefaultColorPickingStorage ==
    [entity_to_color |-> EmptyMap, color_to_entity |-> EmptyMap,
     available_colors_indexes |-> <<>>, next_color_index |-> 0]

entity_registered(cps, entity) == entity \in DOMAIN cps.entity_to_color

\* lines 51-53 left out: the first index given is the counter's 0
next_index_from_zero(cps) ==
    [index |-> cps.next_color_index,
     cps |-> [cps EXCEPT !.next_color_index = cps.next_color_index + 1]]

\* returns the index and the storage with the counter advanced
next_index(cps) ==
    LET next == IF cps.next_color_index = 0 THEN 1 ELSE cps.next_color_index
    IN  [index |-> next, cps |-> [cps EXCEPT !.next_color_index = next + 1]]

\* lines 32-34 left out: a registered entity is given a new colour
create_picking_always_new(cps, entity) ==
    LET ni == next_index(cps)
    IN  [color |-> color_from_u32(ni.index),
         cps |-> [ni.cps EXCEPT
                     !.entity_to_color = MapInsert(@, entity, ni.index),
                     !.color_to_entity = MapInsert(@, ni.index, entity)]]

\* pop_front().unwrap_or(self.next_index()): the argument of unwrap_or is
\* evaluated after the pop and whatever the pop returned
create_picking(cps, entity) ==
    IF entity_registered(cps, entity)
    THEN [color |-> color_from_u32(cps.entity_to_color[entity]), cps |-> cps]
    ELSE LET avail == cps.available_colors_indexes
             popped == IF avail = <<>> THEN 0 ELSE Head(avail)
             rest == IF avail = <<>> THEN avail ELSE Tail(avail)
             ni == next_index([cps EXCEPT !.available_colors_indexes = rest])
             idx == IF avail = <<>> THEN ni.index ELSE popped
         IN  [color |-> color_from_u32(idx),
              cps |-> [ni.cps EXCEPT
                          !.entity_to_color = MapInsert(@, entity, idx),
                          !.color_to_entity = MapInsert(@, idx, entity)]]

(***************************************************************************)
(* The buffer-update pass.  A pass threads a record s through the world:   *)
(*   s.w   the world                 s.vb, s.ib  the buffer registry       *)
(*   s.cps the colour picking        s.up        the updates pushed so far *)
(*   s.tm  the tilemap pass's to_modify list                               *)
(* Queries visit the entities in ascending order.                          *)
(***************************************************************************)
\* body of the loop of prepare_buffer_update_for_component::<T>
component_body_no_missing_check(T, s, e) ==
    IF ~(HasComponent(s.w, e, T) /\ HasMaterial(s.w, e)) THEN s
    ELSE LET d == dirty(s.w, e)
             s1 == IF d THEN upsert_vertex_buffer(push(s, VertexBuffer(e, <<T>>)), e)
                        ELSE s
             s2 == IF d THEN upsert_indexes_buffer(push(s1, IndexBuffer(e, <<T>>)), e)
                        ELSE s1
         IN  [s2 EXCEPT !.w = set_dirty(@, e, FALSE)]

component_body(T, s, e) ==
    IF ~(HasComponent(s.w, e, T) /\ HasMaterial(s.w, e)) THEN s
    ELSE LET d == dirty(s.w, e)
             s1 == IF missing_vertex_buffer(s, e) \/ d
                   THEN upsert_vertex_buffer(push(s, VertexBuffer(e, <<T>>)), e)
                   ELSE s
             s2 == IF missing_indexes_buffer(s1, e) \/ d
                   THEN upsert_indexes_buffer(push(s1, IndexBuffer(e, <<T>>)), e)
                   ELSE s1
         IN  [s2 EXCEPT !.w = set_dirty(@, e, FALSE)]

RECURSIVE component_loop(_, _, _)
component_loop(T, s, e) ==
    IF e > NumEntities THEN s ELSE component_loop(T, component_body(T, s, e), e + 1)

prepare_buffer_update_for_component(T, s) == component_loop(T, s, 1)

\* body of the loop of prepare_buffer_update_for_ui_component::<UiImage>:
\* the query is (&mut T, &Transform, Option<&Material>), and the component's
\* dirty flag is left as it is
ui_component_body(s, e) ==
    IF ~HasComponent(s.w, e, "UiImage") THEN s
    ELSE LET d == dirty(s.w, e)
             s1 == IF missing_vertex_buffer(s, e) \/ d
                   THEN upsert_vertex_buffer(push(s, VertexBuffer(e, <<"UiImage">>)), e)
                   ELSE s
             s2 == IF missing_indexes_buffer(s1, e) \/ d
                   THEN upsert_indexes_buffer(push(s1, IndexBuffer(e, <<"UiImage">>)), e)
                   ELSE s1
         IN  s2

RECURSIVE ui_component_loop(_, _)
ui_component_loop(s, e) ==
    IF e > NumEntities THEN s ELSE ui_component_loop(ui_component_body(s, e), e + 1)

prepare_buffer_update_for_ui_component(s) == ui_component_loop(s, 1)

\* body of the loop of prepare_buffer_update_for_ui_text: path is the
\* texture path of a Material::Texture and "" for any other material
ui_text_body(s, e) ==
    IF ~(HasComponent(s.w, e, "UiText") /\ HasMaterial(s.w, e)) THEN s
    ELSE LET path == IF s.w[e].material = "Texture" THEN "font" ELSE ""
         IN  IF path # "" /\ dirty(s.w, e)
             THEN LET s1 == upsert_vertex_buffer(push(s, VertexBuffer(e, <<"UiText">>)), e)
                      s2 == upsert_indexes_buffer(push(s1, IndexBuffer(e, <<"UiText">>)), e)
                  IN  [s2 EXCEPT !.w = set_dirty(@, e, FALSE)]
             ELSE s

RECURSIVE ui_text_loop(_, _)
ui_text_loop(s, e) ==
    IF e > NumEntities THEN s ELSE ui_text_loop(ui_text_body(s, e), e + 1)

prepare_buffer_update_for_ui_text(s) == ui_text_loop(s, 1)

\* the query (&Tile, &Sprite) restricted to the tiles of one tilemap
IsTileOf(w, e, entity) ==
    HasComponent(w, e, "TileSprite") /\ w[e].tilemap = entity

any_dirty_sprite_of_any_tilemap(w, entity) ==
    Cardinality({e \in Entities :
                    HasComponent(w, e, "TileSprite") /\ dirty(w, e)}) > 0

any_dirty_sprite(w, entity) ==
    Cardinality({e \in Entities : IsTileOf(w, e, entity) /\ dirty(w, e)}) > 0

\* the inner loop over the tiles: registers the tile for colour picking,
\* remembers it in to_modify and batches its data
RECURSIVE tile_loop(_, _, _, _)
tile_loop(s, entity, e, batch) ==
    IF e > NumEntities THEN [s |-> s, batch |-> batch]
    ELSE IF IsTileOf(s.w, e, entity)
         THEN LET cp == create_picking(s.cps, e)
                  s1 == [s EXCEPT !.cps = cp.cps, !.tm = Append(@, e)]
              IN  tile_loop(s1, entity, e + 1, Append(batch, <<e, cp.color>>))
         ELSE tile_loop(s, entity, e + 1, batch)

\* body of the loop over the tilemaps
tilemap_body(s, entity) ==
    IF ~(HasComponent(s.w, entity, "Tilemap") /\ HasMaterial(s.w, entity)) THEN s
    ELSE LET any_tile_modified ==
                 missing_vertex_buffer(s, entity) \/ any_dirty_sprite(s.w, entity)
         IN  IF any_tile_modified
             THEN LET r == tile_loop(s, entity, 1, <<>>)
                      s1 == upsert_vertex_buffer(
                                push(r.s, VertexBuffer(entity, r.batch)), entity)
                      s2 == upsert_indexes_buffer(
                                push(s1, IndexBuffer(entity, r.batch)), entity)
                  IN  s2
             ELSE s

RECURSIVE tilemap_loop(_, _)
tilemap_loop(s, e) ==
    IF e > NumEntities THEN s ELSE tilemap_loop(tilemap_body(s, e), e + 1)

\* to_modify.drain(0..): the batched sprites are cleaned
RECURSIVE drain_to_modify(_, _)
drain_to_modify(w, tm) ==
    IF tm = <<>> THEN w ELSE drain_to_modify(set_dirty(w, Head(tm), FALSE), Tail(tm))

prepare_buffer_update_for_tilemap(s) ==
    LET s1 == tilemap_loop([s EXCEPT !.tm = <<>>], 1)
    IN  [s1 EXCEPT !.w = drain_to_modify(@, s1.tm), !.tm = <<>>]

\* prepare_component_buffer_updates::call
call(s) ==
    LET s1 == prepare_buffer_update_for_component("Triangle", [s EXCEPT !.up = <<>>])
        s2 == prepare_buffer_update_for_component("Square", s1)
        s3 == prepare_buffer_update_for_component("Rectangle", s2)
        s4 == prepare_buffer_update_for_component("Sprite", s3)
        s5 == prepare_buffer_update_for_component("Line", s4)
        s6 == prepare_buffer_update_for_component("Polygon", s5)
        s7 == prepare_buffer_update_for_ui_component(s6)
        s8 == prepare_buffer_update_for_ui_text(s7)
    IN  prepare_buffer_update_for_tilemap(s8)

PassState ==
    [w |-> world, vb |-> vertex_buffers, ib |-> indexes_buffers,
     cps |-> color_picking_storage, up |-> <<>>, tm |-> <<>>]

\* the entities an update list carries a buffer of the given type for
Emitted(up, type) == {up[i].entity : i \in {j \in DOMAIN up : up[j].type = type}}

Count(up, type, e) ==
    Cardinality({i \in DOMAIN up : up[i].type = type /\ up[i].entity = e})

NoPass == [valid |-> FALSE, dirty |-> {}, vb |-> {}, ib |-> {},
           consecutive |-> FALSE, prev_emitted |-> {}]

(***************************************************************************)
(* The buffer pass on its own: the world is built and modified by the game *)
(* between passes.                                                         *)
(***************************************************************************)
BufferInit ==
    /\ world = [e \in Entities |-> Absent]
    /\ vertex_buffers = {}
    /\ indexes_buffers = {}
    /\ color_picking_storage = DefaultColorPickingStorage
    /\ updates = <<>>
    /\ before_pass = NoPass

\* World::push of an entity with one renderable component
Push(e, kind, material, is_dirty, tilemap) ==
    /\ ~world[e].alive
    /\ world' = [world EXCEPT ![e] =
                    [alive |-> TRUE, kind |-> kind, dirty |-> is_dirty,
                     material |-> material, tilemap |-> tilemap]]
    /\ updates' = <<>>
    /\ before_pass' = NoPass
    /\ UNCHANGED <<vertex_buffers, indexes_buffers, color_picking_storage>>
    /\ UNCHANGED <<hierVars, animVars, runVars, restVars>>

\* the game modifies a component, which marks it dirty (UiText::set_text
\* with another text, a sprite's new tile number, ...)
Modify(e) ==
    /\ world[e].alive
    /\ world[e].kind # "Tilemap"
    /\ ~world[e].dirty
    /\ world' = set_dirty(world, e, TRUE)
    /\ updates' = <<>>
    /\ before_pass' = NoPass
    /\ UNCHANGED <<vertex_buffers, indexes_buffers, color_picking_storage>>
    /\ UNCHANGED <<hierVars, animVars, runVars, restVars>>

\* one call of prepare_component_buffer_updates::call
BufferPass ==
    /\ LET s == call(PassState)
       IN  /\ world' = s.w
           /\ vertex_buffers' = s.vb
           /\ indexes_buffers' = s.ib
           /\ color_picking_storage' = s.cps
           /\ updates' = s.up
           /\ before_pass' =
                  [valid |-> TRUE,
                   dirty |-> {e \in Entities : world[e].alive /\ world[e].dirty},
                   vb |-> vertex_buffers, ib |-> indexes_buffers,
                   consecutive |-> before_pass.valid,
                   prev_emitted |-> Emitted(updates, "VertexBuffer")
                                      \cup Emitted(updates, "IndexBuffer")]
    /\ UNCHANGED <<hierVars, animVars, runVars, restVars>>

BufferNext ==
    \/ \E e \in Entities, kind \in Kinds, is_dirty \in BOOLEAN :
          \E material \in MaterialsFor(kind) :
             \E tilemap \in (IF kind = "TileSprite" THEN Entities ELSE {NoEntity}) :
                /\ (kind = "Tilemap" => ~is_dirty)
                /\ Push(e, kind, material, is_dirty, tilemap)
    \/ \E e \in Entities : Modify(e)
    \/ BufferPass


(***************************************************************************)
(* Claims about the buffer-update pass.                                    *)
(***************************************************************************)
IsGenericRenderable(e) ==
    world[e].alive /\ world[e].kind \in GenericKinds /\ HasMaterial(world, e)

EmittedNow == Emitted(updates, "VertexBuffer") \cup Emitted(updates, "IndexBuffer")

\* C1: an entity with a generic renderable component, a Material and a
\* Transform that was not dirty when the pass started gets exactly one
\* VertexBuffer and one IndexBuffer update if the pre-renderer had no buffer
\* recorded for it, and no update at all if both buffers were recorded.
C1_MissingBufferUploadsOnce ==
    before_pass.valid =>
        \A e \in Entities :
            (IsGenericRenderable(e) /\ e \notin before_pass.dirty) =>
                /\ (e \notin before_pass.vb /\ e \notin before_pass.ib) =>
                       /\ Count(updates, "VertexBuffer", e) = 1
                       /\ Count(updates, "IndexBuffer", e) = 1
                /\ (e \in before_pass.vb /\ e \in before_pass.ib) =>
                       /\ Count(updates, "VertexBuffer", e) = 0
                       /\ Count(updates, "IndexBuffer", e) = 0

\* a pass in which one clean entity without buffers was uploaded and
\* another clean entity with buffers was left alone
C1_Witness ==
    /\ before_pass.valid
    /\ \E e, f \in Entities :
          /\ IsGenericRenderable(e) /\ e \notin before_pass.dirty
          /\ e \notin before_pass.vb /\ e \notin before_pass.ib
          /\ Count(updates, "VertexBuffer", e) = 1
          /\ IsGenericRenderable(f) /\ f \notin before_pass.dirty
          /\ f \in before_pass.vb /\ f \in before_pass.ib
          /\ f \notin EmittedNow

\* C2: after a pass that emitted the buffers of an entity, whatever its
\* renderable component, the component is not dirty, and the pass that
\* follows with nothing modified in between emits no buffer for it.
C2_UploadClearsDirty ==
    before_pass.valid =>
        /\ \A e \in EmittedNow : ~dirty(world, e)
        /\ before_pass.consecutive =>
               \A e \in before_pass.prev_emitted : e \notin EmittedNow

\* the same, for every component but UiImage
C2_UploadClearsDirtyButUiImage ==
    before_pass.valid =>
        /\ \A e \in EmittedNow : world[e].kind # "UiImage" => ~dirty(world, e)
        /\ before_pass.consecutive =>
               \A e \in before_pass.prev_emitted :
                   world[e].kind # "UiImage" => e \notin EmittedNow

\* a tilemap entity the tilemap pass walks: Tilemap, Material, Transform
IsTilemap(e) ==
    world[e].alive /\ world[e].kind = "Tilemap" /\ HasMaterial(world, e)

\* the tile sprites whose tile.tilemap is the entity
TilesOf(e) == {t \in Entities : IsTileOf(world, t, e)}

\* the tiles whose data the update carries
Batched(u) == {u.contents[i][1] : i \in DOMAIN u.contents}

C23_WitnessOtherTilemap ==
    /\ before_pass.valid
    /\ \E e, t \in Entities :
          /\ IsTilemap(e)
          /\ HasComponent(world, t, "TileSprite")
          /\ t \notin TilesOf(e)
          /\ t \in before_pass.dirty
          /\ e \notin EmittedNow

\* C24: a UI text with a Transform and a texture Material for which no
\* buffer is recorded gets one VertexBuffer and one IndexBuffer update in
\* the pass even when it is not dirty.
C24_UiTextMissingBufferUploads ==
    before_pass.valid =>
        \A e \in Entities :
            ( /\ HasComponent(world, e, "UiText")
              /\ world[e].material = "Texture"
              /\ e \notin before_pass.vb
              /\ e \notin before_pass.ib
              /\ e \notin before_pass.dirty ) =>
                /\ Count(updates, "VertexBuffer", e) = 1
                /\ Count(updates, "IndexBuffer", e) = 1

(***************************************************************************)
(* Parent / Children (hierarchy.rs).  subworld holds, for every entity,    *)
(* whether it is in the world, its Parent component (NoEntity: none) and   *)
(* its Children component (has = FALSE: none).  An entity id is never      *)
(* given twice (hecs entities carry a generation).                        *)
(***************************************************************************)
HEntities == 1..HierEntities

NoChildren == [has |-> FALSE, list |-> <<>>]

Children(list) == [has |-> TRUE, list |-> list]

NotInWorld == [alive |-> FALSE, parent |-> NoEntity, children |-> NoChildren]

contains(list, x) == \E i \in DOMAIN list : list[i] = x

Occurrences(list, x) == Cardinality({i \in DOMAIN list : list[i] = x})

\* Vec::retain(|x| x != &old_child)
RECURSIVE retain_not(_, _)
retain_not(list, x) ==
    IF list = <<>> THEN <<>>
    ELSE IF Head(list) = x THEN retain_not(Tail(list), x)
         ELSE <<Head(list)>> \o retain_not(Tail(list), x)

retrieve_parent(sw, potential_children) ==
    IF sw[potential_children].alive THEN sw[potential_children].parent ELSE NoEntity

retrieve_children(sw, potential_parent) ==
    IF sw[potential_parent].alive THEN sw[potential_parent].children ELSE NoChildren

\* the outcome of init_parent_children_link: the world, and whether the
\* function panicked (the parent is not in the world)
init_parent_children_link_always_push(sw, potential_children) ==
    LET parent_entity == retrieve_parent(sw, potential_children)
    IN  IF parent_entity = NoEntity THEN [sw |-> sw, panic |-> FALSE]
        ELSE IF ~sw[parent_entity].alive THEN [sw |-> sw, panic |-> TRUE]
        ELSE IF sw[parent_entity].children.has
        THEN [sw |-> [sw EXCEPT ![parent_entity].children.list =
                                   Append(@, potential_children)],
              panic |-> FALSE]
        ELSE [sw |-> [sw EXCEPT ![parent_entity].children =
                                   Children(<<potential_children>>)],
              panic |-> FALSE]

\* lines 38-40 left out: a parent that is not in the world is not looked for
init_parent_children_link_unchecked(sw, potential_children) ==
    LET parent_entity == retrieve_parent(sw, potential_children)
    IN  IF parent_entity = NoEntity THEN [sw |-> sw, panic |-> FALSE]
        ELSE IF ~sw[parent_entity].alive THEN [sw |-> sw, panic |-> FALSE]
        ELSE IF sw[parent_entity].children.has
        THEN [sw |-> IF ~contains(sw[parent_entity].children.list, potential_children)
                     THEN [sw EXCEPT ![parent_entity].children.list =
                                        Append(@, potential_children)]
                     ELSE sw,
              panic |-> FALSE]
        ELSE [sw |-> [sw EXCEPT ![parent_entity].children =
                                   Children(<<potential_children>>)],
              panic |-> FALSE]

init_parent_children_link(sw, potential_children) ==
    LET parent_entity == retrieve_parent(sw, potential_children)
    IN  IF parent_entity = NoEntity THEN [sw |-> sw, panic |-> FALSE]
        ELSE IF ~sw[parent_entity].alive THEN [sw |-> sw, panic |-> TRUE]
        ELSE IF sw[parent_entity].children.has
        THEN [sw |-> IF ~contains(sw[parent_entity].children.list, potential_children)
                     THEN [sw EXCEPT ![parent_entity].children.list =
                                        Append(@, potential_children)]
                     ELSE sw,
              panic |-> FALSE]
        ELSE [sw |-> [sw EXCEPT ![parent_entity].children =
                                   Children(<<potential_children>>)],
              panic |-> FALSE]

update_parent_if_needed(sw, old_parent, old_child) ==
    IF old_parent = NoEntity THEN sw
    ELSE IF sw[old_parent].alive /\ sw[old_parent].children.has
    THEN IF contains(sw[old_parent].children.list, old_child)
         THEN [sw EXCEPT ![old_parent].children.list = retain_not(@, old_child)]
         ELSE sw
    ELSE sw

\* remove_one::<Parent> on every entity of the list; a failure is ignored
update_children_if_needed(sw, old_children) ==
    IF ~old_children.has THEN sw
    ELSE [e \in HEntities |->
            IF sw[e].alive /\ contains(old_children.list, e)
            THEN [sw[e] EXCEPT !.parent = NoEntity]
            ELSE sw[e]]

NoLinkOp ==
    [op |-> "none", child |-> NoEntity, parent |-> NoEntity, before |-> <<>>,
     children |-> <<>>]

\* init_parent_children_link was called for the child, whose Parent named
\* the parent (NoEntity: no Parent component), in a world with these
\* Children components
LinkInitOp(sw, child) ==
    [op |-> "init", child |-> child, parent |-> retrieve_parent(sw, child),
     before |-> <<>>, children |-> [x \in HEntities |-> sw[x].children]]

HierInit ==
    /\ subworld = [e \in HEntities |-> NotInWorld]
    /\ hier_panicked = FALSE
    /\ hier_ever = {}
    /\ hier_linked = {}
    /\ hier_last = NoLinkOp

\* World::push of an entity without Parent
Spawn(e) ==
    /\ ~hier_panicked
    /\ e \notin hier_ever
    /\ subworld' = [subworld EXCEPT ![e].alive = TRUE]
    /\ hier_ever' = hier_ever \cup {e}
    /\ hier_last' = NoLinkOp
    /\ UNCHANGED <<hier_panicked, hier_linked>>
    /\ UNCHANGED <<bufferVars, animVars, runVars, restVars>>

\* World::add_components(e, (Parent(p),)): the component is inserted, or
\* replaces the one the entity had, and the link is initialised
AddParent(e, p) ==
    /\ ~hier_panicked
    /\ subworld[e].alive
    /\ LET r == init_parent_children_link([subworld EXCEPT ![e].parent = p], e)
       IN  /\ subworld' = r.sw
           /\ hier_panicked' = r.panic
           /\ hier_linked' = IF r.panic THEN hier_linked \ {e} ELSE hier_linked \cup {e}
           /\ hier_last' = LinkInitOp([subworld EXCEPT ![e].parent = p], e)
    /\ UNCHANGED hier_ever
    /\ UNCHANGED <<bufferVars, animVars, runVars, restVars>>

\* init_parent_children_link called once more for an entity of the world
\* (any other add_components on it)
InitLink(e) ==
    /\ ~hier_panicked
    /\ subworld[e].alive
    /\ LET r == init_parent_children_link(subworld, e)
           p == retrieve_parent(subworld, e)
       IN  /\ subworld' = r.sw
           /\ hier_panicked' = r.panic
           /\ hier_linked' = IF p # NoEntity /\ ~r.panic
                             THEN hier_linked \cup {e} ELSE hier_linked
           /\ hier_last' = LinkInitOp(subworld, e)
    /\ UNCHANGED hier_ever
    /\ UNCHANGED <<bufferVars, animVars, runVars, restVars>>

\* World::remove_component::<Parent>(e): the old parent is looked up, the
\* component removed, and the old parent's list updated
RemoveParent(e) ==
    /\ ~hier_panicked
    /\ subworld[e].alive
    /\ subworld[e].parent # NoEntity
    /\ LET old_parent == retrieve_parent(subworld, e)
       IN  /\ subworld' = update_parent_if_needed(
                              [subworld EXCEPT ![e].parent = NoEntity], old_parent, e)
           /\ hier_last' = [op |-> "unlink", child |-> e, parent |-> old_parent,
                            before |-> subworld[old_parent].children.list,
                            children |-> <<>>]
    /\ hier_linked' = hier_linked \ {e}
    /\ UNCHANGED <<hier_panicked, hier_ever>>
    /\ UNCHANGED <<bufferVars, animVars, runVars, restVars>>

\* World::remove(e): the entity is despawned, taken out of its parent's list,
\* and its children lose their Parent component
Despawn(e) ==
    /\ ~hier_panicked
    /\ subworld[e].alive
    /\ LET old_parent == retrieve_parent(subworld, e)
           old_children == retrieve_children(subworld, e)
           sw1 == [subworld EXCEPT ![e] = NotInWorld]
           sw2 == update_parent_if_needed(sw1, old_parent, e)
           sw3 == update_children_if_needed(sw2, old_children)
       IN  /\ subworld' = sw3
           /\ hier_linked' = {x \in hier_linked \ {e} : sw3[x].parent # NoEntity}
           /\ hier_last' = NoLinkOp
    /\ UNCHANGED <<hier_panicked, hier_ever>>
    /\ UNCHANGED <<bufferVars, animVars, runVars, restVars>>

HierNext ==
    \/ \E e \in HEntities : Spawn(e)
    \/ \E e, p \in HEntities : AddParent(e, p)
    \/ \E e \in HEntities : InitLink(e)
    \/ \E e \in HEntities : RemoveParent(e)
    \/ \E e \in HEntities : Despawn(e)

\* C8: every entity that carries Parent(P) and whose link was initialised
\* is exactly once in P's Children list; and right after the Parent
\* component of E was removed and update_parent_if_needed(P, E) ran, E is not
\* in P's Children list while every other child of P is in it as often as
\* before, that is once.
C8_ChildListedExactlyOnce ==
    /\ \A e \in HEntities :
          (subworld[e].alive /\ subworld[e].parent # NoEntity /\ e \in hier_linked) =>
              LET p == subworld[e].parent
              IN  /\ subworld[p].alive
                  /\ subworld[p].children.has
                  /\ Occurrences(subworld[p].children.list, e) = 1
    /\ hier_last.op = "unlink" =>
          LET now == subworld[hier_last.parent].children.list
          IN  /\ ~contains(now, hier_last.child)
              /\ \A x \in HEntities \ {hier_last.child} :
                    /\ Occurrences(now, x) = Occurrences(hier_last.before, x)
                    /\ Occurrences(now, x) <= 1

\* C25: initialising the link of an entity whose Parent names an entity
\* that is not in the world is a fatal error at that call, which creates
\* and modifies no Children component; initialising the link of an entity
\* without Parent changes nothing; and nothing else is fatal.
C25_MissingParentIsFatal ==
    /\ hier_last.op = "init" =>
          /\ (hier_last.parent # NoEntity /\ ~subworld[hier_last.parent].alive) =>
                /\ hier_panicked
                /\ \A x \in HEntities :
                      subworld[x].children = hier_last.children[x]
          /\ hier_last.parent = NoEntity =>
                /\ ~hier_panicked
                /\ \A x \in HEntities :
                      subworld[x].children = hier_last.children[x]
                /\ subworld[hier_last.child].parent = NoEntity
          /\ (hier_last.parent # NoEntity /\ subworld[hier_last.parent].alive) =>
                ~hier_panicked
    /\ hier_panicked =>
          /\ hier_last.op = "init"
          /\ hier_last.parent # NoEntity
          /\ ~subworld[hier_last.parent].alive

\* the fatal call, in a world where an entity has a Children component
C25_Witness ==
    /\ hier_panicked
    /\ hier_last.op = "init"
    /\ \E x \in HEntities : subworld[x].children.has

\* the call for an entity without Parent, in a world that has a link
C25_WitnessNoParent ==
    /\ hier_last.op = "init"
    /\ hier_last.parent = NoEntity
    /\ \E x \in HEntities : subworld[x].children.has

\* E was taken out of a list that held another child too
C8_Witness ==
    /\ hier_last.op = "unlink"
    /\ Len(hier_last.before) >= 2
    /\ contains(hier_last.before, hier_last.child)
    /\ Len(subworld[hier_last.parent].children.list) = Len(hier_last.before) - 1

(***************************************************************************)
(* Animations (animations.rs).  An Animation is its status and, for every  *)
(* modifier, number_of_keyframes and current_keyframe.  The status         *)
(* WaitingStartTime carries its instant in t (0 for every other status).   *)
(***************************************************************************)
AnimNames == {"move", "blink"}

Status(s) == [s |-> s, t |-> 0]

WaitingStartTime(instant) == [s |-> "WaitingStartTime", t |-> instant]

Stopped == Status("Stopped")

ForceStopped == Status("ForceStopped")

Running == Status("Running")

Looping == Status("Looping")

Stopping == Status("Stopping")

\* AnimationModifier::new
NewModifier(number_of_keyframes) ==
    [number_of_keyframes |-> number_of_keyframes, current_keyframe |-> 0]

contains_key(anims, animation_name) == animation_name \in DOMAIN anims

\* line 43: an unknown name is reported as started
run_unknown_is_started(anims, animation_name, status) ==
    IF contains_key(anims, animation_name)
    THEN IF anims[animation_name].status.s \in {"WaitingStartTime", "Stopped"}
         THEN [anims |-> [anims EXCEPT ![animation_name].status = status], ok |-> TRUE]
         ELSE [anims |-> anims, ok |-> FALSE]
    ELSE [anims |-> anims, ok |-> TRUE]

\* Animations::run: the component after the call, and the value returned
run(anims, animation_name, status) ==
    IF contains_key(anims, animation_name)
    THEN IF anims[animation_name].status.s \in {"WaitingStartTime", "Stopped"}
         THEN [anims |-> [anims EXCEPT ![animation_name].status = status], ok |-> TRUE]
         ELSE [anims |-> anims, ok |-> FALSE]
    ELSE [anims |-> anims, ok |-> FALSE]

run_animation_restart(anims, animation_name) ==
    IF contains_key(anims, animation_name)
    THEN [anims |-> [anims EXCEPT ![animation_name].status = Running], ok |-> TRUE]
    ELSE [anims |-> anims, ok |-> FALSE]

run_animation(anims, animation_name) == run(anims, animation_name, Running)

loop_animation(anims, animation_name) == run(anims, animation_name, Looping)

\* Instant::checked_add: none when the sum cannot be represented
checked_add(instant, delay) ==
    IF instant + delay <= MaxInstant
    THEN [some |-> TRUE, instant |-> instant + delay]
    ELSE [some |-> FALSE, instant |-> 0]

\* Animations::run_animation_delayed, called at the instant now
run_animation_delayed(anims, animation_name, delay, now) ==
    LET start_time == checked_add(now, delay)
    IN  IF start_time.some
        THEN [anims |-> run(anims, animation_name,
                            WaitingStartTime(start_time.instant)).anims,
              ok |-> TRUE]
        ELSE [anims |-> anims, ok |-> FALSE]

\* lines 111-112: an animation that is waiting for its start time is
\* stopped too
stop_single_animation_waiting_too(force, animation) ==
    IF animation.status.s \in {"Looping", "Running", "WaitingStartTime"}
    THEN [animation |-> [animation EXCEPT !.status =
                            IF force THEN ForceStopped ELSE Stopping],
          ok |-> TRUE]
    ELSE [animation |-> animation, ok |-> FALSE]

\* the animation after the call, and the value returned
stop_single_animation(force, animation) ==
    IF animation.status = Looping \/ animation.status = Running
    THEN [animation |-> [animation EXCEPT !.status =
                            IF force THEN ForceStopped ELSE Stopping],
          ok |-> TRUE]
    ELSE [animation |-> animation, ok |-> FALSE]

stop_animation(anims, animation_name, force) ==
    IF contains_key(anims, animation_name)
    THEN LET r == stop_single_animation(force, anims[animation_name])
         IN  [anims |-> [anims EXCEPT ![animation_name] = r.animation], ok |-> r.ok]
    ELSE [anims |-> anims, ok |-> FALSE]

stop_all_animation(anims, force) ==
    [n \in DOMAIN anims |-> stop_single_animation(force, anims[n]).animation]

\* line 133 without WaitingStartTime(_)
any_animation_running_not_waiting(anims) ==
    Cardinality({n \in DOMAIN anims :
        anims[n].status.s \in {"Running", "Looping", "Stopping"}}) > 0

any_animation_running(anims) ==
    Cardinality({n \in DOMAIN anims :
        anims[n].status.s \in {"Running", "WaitingStartTime", "Looping", "Stopping"}}) > 0

\* the modifiers that reached their last keyframe
Finished(modifiers) ==
    {i \in DOMAIN modifiers :
        modifiers[i].current_keyframe = modifiers[i].number_of_keyframes}

ResetKeyframes(modifiers) ==
    [i \in DOMAIN modifiers |-> [modifiers[i] EXCEPT !.current_keyframe = 0]]

try_update_status_any_finished(animation) ==
    IF animation.status = ForceStopped
    THEN [animation EXCEPT !.status = Stopped]
    ELSE IF Cardinality(Finished(animation.modifiers)) > 0
         THEN [animation EXCEPT
                 !.modifiers = ResetKeyframes(@),
                 !.status = IF @ = Running \/ @ = Stopping THEN Stopped ELSE @]
         ELSE animation

\* lines 197-200 rewinding the modifiers of a force-stopped animation
try_update_status_rewinds_force_stopped(animation) ==
    IF animation.status = ForceStopped
    THEN [animation EXCEPT !.status = Stopped, !.modifiers = ResetKeyframes(@)]
    ELSE IF Cardinality(Finished(animation.modifiers)) = Len(animation.modifiers)
         THEN [animation EXCEPT
                 !.modifiers = ResetKeyframes(@),
                 !.status = IF @ = Running \/ @ = Stopping THEN Stopped ELSE @]
         ELSE animation

\* line 209 with Looping among the statuses that end
try_update_status_ends_looping(animation) ==
    IF animation.status = ForceStopped
    THEN [animation EXCEPT !.status = Stopped]
    ELSE IF Cardinality(Finished(animation.modifiers)) = Len(animation.modifiers)
         THEN [animation EXCEPT
                 !.modifiers = ResetKeyframes(@),
                 !.status = IF @ = Running \/ @ = Stopping \/ @ = Looping
                            THEN Stopped ELSE @]
         ELSE animation

\* Animation::try_update_status
try_update_status(animation) ==
    IF animation.status = ForceStopped
    THEN [animation EXCEPT !.status = Stopped]
    ELSE IF Cardinality(Finished(animation.modifiers)) = Len(animation.modifiers)
         THEN [animation EXCEPT
                 !.modifiers = ResetKeyframes(@),
                 !.status = IF @ = Running \/ @ = Stopping THEN Stopped ELSE @]
         ELSE animation

\* the lists of modifiers an animation is built with
RECURSIVE ModifierLists(_)
ModifierLists(len) ==
    IF len = 0 THEN {<<>>}
    ELSE {Append(l, NewModifier(k)) : l \in ModifierLists(len - 1), k \in 0..MaxKeyframes}

\* Animation::new, Animation::running, Animation::delayed, Animation::looping
NewAnimations(len) ==
    [status : {Stopped, Running, WaitingStartTime(1), Looping},
     modifiers : ModifierLists(len)]

NoCall == [op |-> "none", name |-> "", result |-> FALSE, again |-> FALSE,
           force |-> FALSE, before |-> EmptyMap]

Called(op, name, result) ==
    [op |-> op, name |-> name, result |-> result,
     again |-> anim_last.op = "run_animation" /\ anim_last.name = name
               /\ anim_last.result /\ op = "run_animation",
     force |-> FALSE,
     before |-> animations]

\* Animations::new with any animations of at most MaxModifiers modifiers
AnimInit ==
    /\ \E names \in SUBSET AnimNames :
          \E lens \in [names -> 0..MaxModifiers] :
             /\ \A n \in names : \A m \in names \ {n} : lens[n] + lens[m] <= MaxModifiers
             /\ animations \in {a \in [names -> UNION {NewAnimations(l) : l \in 0..MaxModifiers}] :
                                   \A n \in names : Len(a[n].modifiers) = lens[n]}
    /\ anim_last = NoCall

RunAnimation(name) ==
    /\ LET r == run_animation(animations, name)
       IN  /\ animations' = r.anims
           /\ anim_last' = Called("run_animation", name, r.ok)
    /\ UNCHANGED <<bufferVars, hierVars, runVars, restVars>>

LoopAnimation(name) ==
    /\ LET r == loop_animation(animations, name)
       IN  /\ animations' = r.anims
           /\ anim_last' = Called("loop_animation", name, r.ok)
    /\ UNCHANGED <<bufferVars, hierVars, runVars, restVars>>

RunAnimationDelayed(name, delay, now) ==
    /\ LET r == run_animation_delayed(animations, name, delay, now)
       IN  /\ animations' = r.anims
           /\ anim_last' = Called("run_animation_delayed", name, r.ok)
    /\ UNCHANGED <<bufferVars, hierVars, runVars, restVars>>

StopAnimation(name, force) ==
    /\ LET r == stop_animation(animations, name, force)
       IN  /\ animations' = r.anims
           /\ anim_last' = [Called("stop_animation", name, r.ok) EXCEPT !.force = force]
    /\ UNCHANGED <<bufferVars, hierVars, runVars, restVars>>

StopAllAnimation(force) ==
    /\ animations' = stop_all_animation(animations, force)
    /\ anim_last' = Called("stop_all_animation", "", FALSE)
    /\ UNCHANGED <<bufferVars, hierVars, runVars, restVars>>

AnyAnimationRunning ==
    /\ anim_last' = Called("any_animation_running", "",
                           any_animation_running(animations))
    /\ UNCHANGED animations
    /\ UNCHANGED <<bufferVars, hierVars, runVars, restVars>>

\* the animation system applies one keyframe of a modifier of an animation
\* that is playing
ApplyKeyframe(name, i) ==
    /\ contains_key(animations, name)
    /\ animations[name].status \in {Running, Looping, Stopping}
    /\ i \in DOMAIN animations[name].modifiers
    /\ animations[name].modifiers[i].current_keyframe
          < animations[name].modifiers[i].number_of_keyframes
    /\ animations' = [animations EXCEPT ![name].modifiers[i].current_keyframe = @ + 1]
    /\ anim_last' = NoCall
    /\ UNCHANGED <<bufferVars, hierVars, runVars, restVars>>

\* the animation system checks the status of an animation
TryUpdateStatus(name) ==
    /\ contains_key(animations, name)
    /\ animations' = [animations EXCEPT ![name] = try_update_status(@)]
    /\ anim_last' = Called("try_update_status", name, FALSE)
    /\ UNCHANGED <<bufferVars, hierVars, runVars, restVars>>

AnimNext ==
    \/ \E name \in AnimNames : RunAnimation(name)
    \/ \E name \in AnimNames : LoopAnimation(name)
    \/ \E name \in AnimNames, delay \in 0..MaxDelay, now \in 1..MaxInstant :
          RunAnimationDelayed(name, delay, now)
    \/ \E name \in AnimNames, force \in BOOLEAN : StopAnimation(name, force)
    \/ \E force \in BOOLEAN : StopAllAnimation(force)
    \/ AnyAnimationRunning
    \/ \E name \in AnimNames, i \in 1..MaxModifiers : ApplyKeyframe(name, i)
    \/ \E name \in AnimNames : TryUpdateStatus(name)

\* the animation the last call was about, before and after the call
AnimBefore == anim_last.before[anim_last.name]

AnimAfter == animations[anim_last.name]

\* C37: try_update_status on a ForceStopped animation makes it Stopped and
\* leaves every modifier as it was, whatever its keyframes; a run_animation
\* that starts an animation leaves its modifiers as they were too, so a
\* force-stopped animation plays on from the keyframe it was stopped at
C37_ForceStoppedKeepsKeyframes ==
    /\ (anim_last.op = "try_update_status" /\ AnimBefore.status = ForceStopped) =>
          /\ AnimAfter.status = Stopped
          /\ AnimAfter.modifiers = AnimBefore.modifiers
    /\ (anim_last.op = "run_animation" /\ anim_last.result) =>
          /\ AnimAfter.status = Running
          /\ AnimAfter.modifiers = AnimBefore.modifiers

\* a force-stopped animation became Stopped with one modifier past its
\* first keyframe and another not at its last
C37_Witness ==
    /\ anim_last.op = "try_update_status"
    /\ AnimBefore.status = ForceStopped
    /\ AnimAfter.status = Stopped
    /\ \E i, j \in DOMAIN AnimAfter.modifiers :
          /\ AnimAfter.modifiers[i].current_keyframe > 0
          /\ AnimAfter.modifiers[j].current_keyframe
                < AnimAfter.modifiers[j].number_of_keyframes

\* a Stopped animation left in that state was run again
C37_WitnessResumed ==
    /\ anim_last.op = "run_animation"
    /\ anim_last.result
    /\ AnimBefore.status = Stopped
    /\ AnimAfter.status = Running
    /\ \E i, j \in DOMAIN AnimAfter.modifiers :
          /\ AnimAfter.modifiers[i].current_keyframe > 0
          /\ AnimAfter.modifiers[j].current_keyframe
                < AnimAfter.modifiers[j].number_of_keyframes

\* C9: try_update_status on a Running or Stopping animation: if every
\* modifier is at its last keyframe the animation becomes Stopped and every
\* current_keyframe is 0; if some modifier is not, the status and every
\* current_keyframe are as before.
C9_FinishedAnimationStops ==
    (anim_last.op = "try_update_status" /\ AnimBefore.status \in {Running, Stopping}) =>
        IF \A i \in DOMAIN AnimBefore.modifiers :
               AnimBefore.modifiers[i].current_keyframe
                   = AnimBefore.modifiers[i].number_of_keyframes
        THEN /\ AnimAfter.status = Stopped
             /\ \A i \in DOMAIN AnimAfter.modifiers :
                   AnimAfter.modifiers[i].current_keyframe = 0
        ELSE AnimAfter = AnimBefore

\* a Running animation of two modifiers, both played to their last keyframe,
\* was stopped and rewound by the status check
C9_Witness ==
    /\ anim_last.op = "try_update_status"
    /\ AnimBefore.status = Running
    /\ Len(AnimBefore.modifiers) = 2
    /\ \A i \in DOMAIN AnimBefore.modifiers :
          /\ AnimBefore.modifiers[i].number_of_keyframes > 0
          /\ AnimBefore.modifiers[i].current_keyframe
                = AnimBefore.modifiers[i].number_of_keyframes
    /\ AnimAfter.status = Stopped
    /\ \A i \in DOMAIN AnimAfter.modifiers : AnimAfter.modifiers[i].current_keyframe = 0

\* C10: run_animation on an existing animation returns true and makes it
\* Running if it was Stopped or WaitingStartTime, and returns false and
\* changes nothing if it was Running, Looping, Stopping or ForceStopped.
C10_RunAnimationOnlyFromRest ==
    (anim_last.op = "run_animation" /\ anim_last.name \in DOMAIN anim_last.before) =>
        IF AnimBefore.status.s \in {"Stopped", "WaitingStartTime"}
        THEN anim_last.result /\ AnimAfter.status = Running
        ELSE ~anim_last.result /\ animations = anim_last.before

\* C26: run_animation, loop_animation and stop_animation called with a
\* name no animation has return false and leave the status and the
\* keyframes of every animation of the component as they were.
C26_UnknownNameIsRefused ==
    ( /\ anim_last.op \in {"run_animation", "loop_animation", "stop_animation"}
      /\ anim_last.name \notin DOMAIN anim_last.before ) =>
        /\ ~anim_last.result
        /\ animations = anim_last.before

\* stop_animation with an unknown name on a component whose other
\* animation is playing
C26_Witness ==
    /\ anim_last.op = "stop_animation"
    /\ anim_last.name \notin DOMAIN anim_last.before
    /\ \E n \in DOMAIN animations : animations[n].status = Running
    /\ ~anim_last.result

\* run_animation with an unknown name on a component whose other animation
\* is stopped
C26_WitnessRun ==
    /\ anim_last.op = "run_animation"
    /\ anim_last.name \notin DOMAIN anim_last.before
    /\ \E n \in DOMAIN animations : animations[n].status = Stopped
    /\ ~anim_last.result

\* C28: any_animation_running returns false exactly when every animation
\* of the component is Stopped or ForceStopped, the component without
\* animation included, and true when one is Running, WaitingStartTime,
\* Looping or Stopping.
C28_AnyAnimationRunning ==
    anim_last.op = "any_animation_running" =>
        /\ ~anim_last.result <=>
              \A n \in DOMAIN animations :
                  animations[n].status \in {Stopped, ForceStopped}
        /\ animations = anim_last.before

\* true for a component whose only animation that is not stopped waits for
\* its start time
C28_Witness ==
    /\ anim_last.op = "any_animation_running"
    /\ anim_last.result
    /\ \E n \in DOMAIN animations :
          /\ animations[n].status.s = "WaitingStartTime"
          /\ \A m \in DOMAIN animations \ {n} :
                animations[m].status \in {Stopped, ForceStopped}

\* false for a component without animation and for one with a ForceStopped
\* animation
C28_WitnessFalse ==
    /\ anim_last.op = "any_animation_running"
    /\ ~anim_last.result
    /\ \E n \in DOMAIN animations : animations[n].status = ForceStopped

C10_Witness ==
    /\ anim_last.op = "run_animation"
    /\ anim_last.again
    /\ AnimBefore.status = Running
    /\ ~anim_last.result

\* C11: run_animation_delayed returns true only when the animation has been
\* started, that is when it is now WaitingStartTime, and returns false when
\* no animation has that name or the animation was already running.
C11_DelayedRunReportsStart ==
    anim_last.op = "run_animation_delayed" =>
        /\ anim_last.result =>
               /\ anim_last.name \in DOMAIN animations
               /\ AnimAfter.status.s = "WaitingStartTime"
        /\ anim_last.name \notin DOMAIN anim_last.before => ~anim_last.result
        /\ (/\ anim_last.name \in DOMAIN anim_last.before
            /\ AnimBefore.status \in {Running, Looping, Stopping}) => ~anim_last.result

\* C12: stop_animation returns true exactly when the animation exists and is
\* Running or Looping; it is then ForceStopped if force, Stopping if not, and
\* no other animation changes.  In every other case it returns false and no
\* status changes.
C12_StopOnlyWhatPlays ==
    anim_last.op = "stop_animation" =>
        IF /\ anim_last.name \in DOMAIN anim_last.before
           /\ AnimBefore.status \in {Running, Looping}
        THEN /\ anim_last.result
             /\ animations =
                    [anim_last.before EXCEPT ![anim_last.name].status =
                        IF anim_last.force THEN ForceStopped ELSE Stopping]
        ELSE /\ ~anim_last.result
             /\ animations = anim_last.before

\* a Looping animation was force-stopped
C12_Witness ==
    /\ anim_last.op = "stop_animation"
    /\ anim_last.force
    /\ anim_last.result
    /\ AnimBefore.status = Looping
    /\ AnimAfter.status = ForceStopped

(***************************************************************************)
(* The runner (scion_runner.rs) and the rendering thread.                  *)
(*                                                                         *)
(* The simulation thread runs the loop body of launch_game_loop phase by   *)
(* phase; the rendering thread receives the messages of render_channel and *)
(* sends picked colours back on render_callback_channel.  The frame        *)
(* limiter's answers depend on the clock and are free choices; the scene   *)
(* and the systems are free to modify the world.                           *)
(***************************************************************************)
color_registered(cps, color) == as_u32(color) \in DOMAIN cps.color_to_entity

get_entity_from_color(cps, color) ==
    IF color_registered(cps, color) THEN cps.color_to_entity[as_u32(color)] ELSE NoEntity

\* Option<Color>::None of RendererCallbackEvent::CursorColorPicking
NoColor == [r |-> -1, g |-> -1, b |-> -1]

\* the pixels the rendering thread may read back: the first picking colour
\* and the background
PickedColors == {color_from_u32(1), new_rgb(255, 255, 255)}

\* mpsc::channel(): an asynchronous channel with an unbounded buffer, so a
\* send never waits for room; sync_channel(1) would
sync_channel_has_room(channel) == Len(channel) < 1

channel_has_room(channel) == TRUE

\* a message of render_channel: the four vectors of the tuple, and, as
\* history, its category and the pass of the updates and of the draw list
Message(cat, events, upd, infos, desp, upd_pass, infos_pass) ==
    [cat |-> cat, events |-> events, updates |-> upd, infos |-> infos,
     despawned |-> desp, upd_pass |-> upd_pass, infos_pass |-> infos_pass]

NoPassNumber == -1

\* the tail of a loop over try_recv: the last event received, if any
get_last_event_first(receiver) ==
    IF receiver = <<>> THEN [some |-> FALSE, event |-> NoColor]
    ELSE [some |-> TRUE, event |-> receiver[1]]

get_last_event(receiver) ==
    IF receiver = <<>> THEN [some |-> FALSE, event |-> NoColor]
    ELSE [some |-> TRUE, event |-> receiver[Len(receiver)]]

\* Scion2DPreRenderer::prepare_rendering: the draw infos of the renderable
\* entities
RECURSIVE prepare_rendering(_, _)
prepare_rendering(w, e) ==
    IF e > NumEntities THEN <<>>
    ELSE (IF w[e].alive /\ HasMaterial(w, e) THEN <<e>> ELSE <<>>)
         \o prepare_rendering(w, e + 1)

\* what the scene and the systems may do to GameData in one callback:
\* nothing, modify a component, despawn an entity, ask for a picking update
GameLogic(w, d, pu) ==
    {[w |-> w, d |-> d, pu |-> pu]}
    \cup {[w |-> set_dirty(w, e, TRUE), d |-> d, pu |-> pu] :
            e \in {x \in Entities : w[x].alive /\ w[x].kind # "Tilemap" /\ ~w[x].dirty}}
    \cup {[w |-> [w EXCEPT ![e] = Absent], d |-> Append(d, e), pu |-> pu] :
            e \in {x \in Entities : w[x].alive /\ w[x].kind # "Tilemap"}}
    \cup {[w |-> w, d |-> d, pu |-> TRUE]}

\* the events handle_window_event returns
WindowEvents == {<<>>, <<"CursorPositionUpdate">>}

NoFacts == [tick_due |-> FALSE, fixed_due |-> FALSE, render_due |-> FALSE,
            had_despawned |-> FALSE, had_picking_update |-> FALSE]

NoPick == [valid |-> FALSE, pending |-> <<>>, before |-> NoEntity]

\* the world the scene builds in on_start: a tilemap and one tile of it
StartWorld ==
    [e \in Entities |->
        CASE e = 1 -> [alive |-> TRUE, kind |-> "Tilemap", dirty |-> FALSE,
                       material |-> "Tileset", tilemap |-> NoEntity]
          [] e = 2 -> [alive |-> TRUE, kind |-> "TileSprite", dirty |-> TRUE,
                       material |-> "None", tilemap |-> 1]
          [] OTHER -> Absent]

RunnerIdle ==
    /\ pc = "pick"
    /\ should_tick = FALSE
    /\ pass = 0
    /\ despawned = <<>>
    /\ picking_update = FALSE
    /\ color_picked_entity = NoEntity
    /\ render_channel = <<>>
    /\ render_callback_channel = <<>>
    /\ rt_received = <<>>
    /\ rt_cursor_position = FALSE
    /\ phase_log = <<>>
    /\ sent_log = <<>>
    /\ pass_facts = NoFacts
    /\ pick_last = NoPick

RunnerInit ==
    /\ world = StartWorld
    /\ vertex_buffers = {}
    /\ indexes_buffers = {}
    /\ color_picking_storage = DefaultColorPickingStorage
    /\ updates = <<>>
    /\ before_pass = NoPass
    /\ RunnerIdle

\* the send of a message: the channel after it, and whether the sender is
\* held because there is no room
send(channel, msg) ==
    IF channel_has_room(channel)
    THEN [channel |-> Append(channel, msg), blocked |-> FALSE]
    ELSE [channel |-> channel, blocked |-> TRUE]

RECURSIVE send_all(_, _)
send_all(channel, msgs) ==
    IF msgs = <<>> THEN [channel |-> channel, blocked |-> FALSE]
    ELSE LET r == send(channel, Head(msgs))
         IN  IF r.blocked THEN r ELSE send_all(r.channel, Tail(msgs))

Cats(msgs) == [i \in DOMAIN msgs |-> msgs[i].cat]

\* line 57: one message with the windowing events, sent twice by mistake
window_event_messages_twice(events) ==
    <<Message("events", events, <<>>, <<>>, <<>>, NoPassNumber, NoPassNumber),
      Message("events", events, <<>>, <<>>, <<>>, NoPassNumber, NoPassNumber)>>

window_event_messages(events) ==
    <<Message("events", events, <<>>, <<>>, <<>>, NoPassNumber, NoPassNumber)>>

\* line 75: the draw list sent ahead of the updates it relies on
draw_prep_messages_split(upd, infos, p) ==
    <<Message("draw", <<>>, <<>>, infos, <<>>, NoPassNumber, p),
      Message("draw", <<>>, upd, <<>>, <<>>, p, NoPassNumber)>>

draw_prep_messages(upd, infos, p) ==
    <<Message("draw", <<>>, upd, infos, <<>>, p, p)>>

\* line 80: end-of-frame housekeeping run in every pass
end_frame_is_due_always(tick) == TRUE

end_frame_is_due(tick) == tick

\* GameData::take_despawned: the entities despawned since the last call
take_despawned(d) == [some |-> d # <<>>, entities |-> d]

Resolve(cps, picked) ==
    IF picked.event # NoColor THEN get_entity_from_color(cps, picked.event)
    ELSE NoEntity

\* compute_color_picked_entity
ComputeColorPickedEntity ==
    /\ pc = "pick"
    /\ LET picked == get_last_event(render_callback_channel)
       IN  color_picked_entity' =
               IF picked.some THEN Resolve(color_picking_storage, picked)
               ELSE color_picked_entity
    /\ render_callback_channel' = <<>>
    /\ pick_last' = [valid |-> TRUE, pending |-> render_callback_channel,
                     before |-> color_picked_entity]
    /\ phase_log' = <<"pick">>
    /\ sent_log' = <<>>
    /\ pass_facts' = NoFacts
    /\ pc' = "tick"
    /\ UNCHANGED <<should_tick, pass, despawned, picking_update, render_channel,
                   rt_received, rt_cursor_position>>
    /\ UNCHANGED <<bufferVars, hierVars, animVars, restVars>>

\* lines 48-62: the variable tick; the scene's Update and LateUpdate and the
\* systems act on GameData
VariableTick ==
    /\ pc = "tick"
    /\ \E due \in BOOLEAN :
          /\ should_tick' = due
          /\ pass_facts' = [pass_facts EXCEPT !.tick_due = due]
          /\ IF due
             THEN \E events \in WindowEvents :
                     \E g \in GameLogic(world, despawned, picking_update) :
                        LET msgs == window_event_messages(events)
                            r == send_all(render_channel, msgs)
                        IN  /\ render_channel' = r.channel
                            /\ pc' = IF r.blocked THEN "blocked" ELSE "fixed"
                            /\ world' = g.w
                            /\ despawned' = g.d
                            /\ picking_update' = g.pu
                            /\ sent_log' = sent_log \o Cats(msgs)
                            /\ phase_log' = Append(phase_log, "variable_tick")
             ELSE /\ pc' = "fixed"
                  /\ UNCHANGED <<world, despawned, picking_update, render_channel,
                                 sent_log, phase_log>>
    /\ pick_last' = NoPick
    /\ UNCHANGED <<pass, color_picked_entity, render_callback_channel, rt_received,
                   rt_cursor_position>>
    /\ UNCHANGED <<vertex_buffers, indexes_buffers, color_picking_storage, updates,
                   before_pass, hierVars, animVars, restVars>>

\* lines 64-68: the fixed tick
FixedTick ==
    /\ pc = "fixed"
    /\ \E due \in BOOLEAN :
          /\ pass_facts' = [pass_facts EXCEPT !.fixed_due = due]
          /\ IF due
             THEN \E g \in GameLogic(world, despawned, picking_update) :
                     /\ world' = g.w
                     /\ despawned' = g.d
                     /\ picking_update' = g.pu
                     /\ phase_log' = Append(phase_log, "fixed_tick")
             ELSE UNCHANGED <<world, despawned, picking_update, phase_log>>
    /\ pc' = "render"
    /\ UNCHANGED <<should_tick, pass, color_picked_entity, render_channel,
                   render_callback_channel, rt_received, rt_cursor_position,
                   sent_log, pick_last>>
    /\ UNCHANGED <<vertex_buffers, indexes_buffers, color_picking_storage, updates,
                   before_pass, hierVars, animVars, restVars>>

\* lines 70-78: the pre-renderer prepares the updates and the draw infos,
\* which are sent to the rendering thread
RenderPhase ==
    /\ pc = "render"
    /\ \E due \in BOOLEAN :
          /\ pass_facts' = [pass_facts EXCEPT !.render_due = due]
          /\ IF due
             THEN LET s == call(PassState)
                      rendering_infos == prepare_rendering(s.w, 1)
                      msgs == draw_prep_messages(s.up, rendering_infos, pass)
                      r == send_all(render_channel, msgs)
                  IN  /\ world' = s.w
                      /\ vertex_buffers' = s.vb
                      /\ indexes_buffers' = s.ib
                      /\ color_picking_storage' = s.cps
                      /\ render_channel' = r.channel
                      /\ pc' = IF r.blocked THEN "blocked" ELSE "end_frame"
                      /\ sent_log' = sent_log \o Cats(msgs)
                      /\ phase_log' = Append(phase_log, "render")
             ELSE /\ pc' = "end_frame"
                  /\ UNCHANGED <<world, vertex_buffers, indexes_buffers,
                                 color_picking_storage, render_channel, sent_log,
                                 phase_log>>
    /\ UNCHANGED <<should_tick, pass, despawned, picking_update, color_picked_entity,
                   render_callback_channel, rt_received, rt_cursor_position,
                   pick_last>>
    /\ UNCHANGED <<updates, before_pass, hierVars, animVars, restVars>>

\* lines 80-89: end-of-frame housekeeping; the scene's EndFrame acts on
\* GameData, then the despawned entities are forwarded
EndFrame ==
    /\ pc = "end_frame"
    /\ IF end_frame_is_due(should_tick)
       THEN \E g \in GameLogic(world, despawned, picking_update) :
               LET e == take_despawned(g.d)
                   msgs == IF e.some
                           THEN <<Message("despawn", <<>>, <<>>, <<>>, e.entities,
                                          NoPassNumber, NoPassNumber)>>
                           ELSE <<>>
                   r == send_all(render_channel, msgs)
               IN  /\ world' = g.w
                   /\ picking_update' = g.pu
                   /\ despawned' = <<>>
                   /\ render_channel' = r.channel
                   /\ pc' = IF r.blocked THEN "blocked" ELSE "picking"
                   /\ sent_log' = sent_log \o Cats(msgs)
                   /\ phase_log' = Append(phase_log, "end_frame")
                   /\ pass_facts' = [pass_facts EXCEPT !.had_despawned = e.some]
       ELSE /\ pc' = "picking"
            /\ pass_facts' = [pass_facts EXCEPT !.had_despawned = despawned # <<>>]
            /\ UNCHANGED <<world, picking_update, despawned, render_channel, sent_log,
                           phase_log>>
    /\ UNCHANGED <<should_tick, pass, color_picked_entity, render_callback_channel,
                   rt_received, rt_cursor_position, pick_last>>
    /\ UNCHANGED <<vertex_buffers, indexes_buffers, color_picking_storage, updates,
                   before_pass, hierVars, animVars, restVars>>

\* lines 90-92: a pending picking-status update is forwarded
PickingStatus ==
    /\ pc = "picking"
    /\ LET msgs == IF picking_update
                   THEN <<Message("picking", <<"CursorPickingStatusUpdate">>, <<>>,
                                  <<>>, <<>>, NoPassNumber, NoPassNumber)>>
                   ELSE <<>>
           r == send_all(render_channel, msgs)
       IN  /\ render_channel' = r.channel
           /\ pc' = IF r.blocked THEN "blocked" ELSE "sleep"
           /\ sent_log' = sent_log \o Cats(msgs)
    /\ picking_update' = FALSE
    /\ pass_facts' = [pass_facts EXCEPT !.had_picking_update = picking_update]
    /\ UNCHANGED <<should_tick, pass, despawned, color_picked_entity,
                   render_callback_channel, rt_received, rt_cursor_position,
                   phase_log, pick_last>>
    /\ UNCHANGED <<bufferVars, hierVars, animVars, restVars>>

\* line 94: the thread sleeps, and the loop starts over
Sleep ==
    /\ pc = "sleep"
    /\ pass < MaxPasses
    /\ pass' = pass + 1
    /\ pc' = "pick"
    /\ phase_log' = Append(phase_log, "sleep")
    /\ UNCHANGED <<should_tick, despawned, picking_update, color_picked_entity,
                   render_channel, render_callback_channel, rt_received,
                   rt_cursor_position, sent_log, pass_facts, pick_last>>
    /\ UNCHANGED <<bufferVars, hierVars, animVars, restVars>>

\* the rendering thread receives the next message: it applies the events and
\* the updates and renders the draw list; with a cursor position it reads
\* the pixel under the cursor back and sends what it found
RtReceive ==
    /\ render_channel # <<>>
    /\ LET msg == Head(render_channel)
           cursor == rt_cursor_position
                     \/ \E i \in DOMAIN msg.events : msg.events[i] = "CursorPositionUpdate"
       IN  /\ render_channel' = Tail(render_channel)
           /\ rt_received' = Append(rt_received,
                                    [cat |-> msg.cat, upd_pass |-> msg.upd_pass,
                                     infos_pass |-> msg.infos_pass,
                                     n_upd |-> Len(msg.updates)])
           /\ rt_cursor_position' = cursor
           /\ IF cursor /\ msg.infos_pass # NoPassNumber
              THEN \E c \in PickedColors \cup {NoColor} :
                      render_callback_channel' = Append(render_callback_channel, c)
              ELSE UNCHANGED render_callback_channel
    /\ pick_last' = NoPick
    /\ UNCHANGED <<pc, should_tick, pass, despawned, picking_update,
                   color_picked_entity, phase_log, sent_log, pass_facts>>
    /\ UNCHANGED <<bufferVars, hierVars, animVars, restVars>>

SimNext ==
    \/ ComputeColorPickedEntity
    \/ VariableTick
    \/ FixedTick
    \/ RenderPhase
    \/ EndFrame
    \/ PickingStatus
    \/ Sleep

RunnerNext == SimNext \/ RtReceive

(***************************************************************************)
(* Claims about the game loop.  phase_log and sent_log are the phases run  *)
(* and the messages sent since the start of the current pass, pass_facts   *)
(* what the limiter answered and what was pending in it.                   *)
(***************************************************************************)
Sel(cond, x) == IF cond THEN <<x>> ELSE <<>>

\* how far the current pass has got
PcRank ==
    CASE pc = "tick" -> 1
      [] pc = "fixed" -> 2
      [] pc = "render" -> 3
      [] pc = "end_frame" -> 4
      [] pc = "picking" -> 5
      [] pc = "sleep" -> 6
      [] pc = "pick" -> 7
      [] OTHER -> 0

\* C3: in one pass the simulation thread sends, in this order and at most
\* once each: the windowing events (only when the variable tick ran), the
\* draw preparation (only when a render was due), the despawned entities
\* (only when the tick ran and some entity was despawned), the picking
\* status (only when one was pending)
C3_MessagesOfAPassInOrder ==
    sent_log = Sel(PcRank > 1 /\ pass_facts.tick_due, "events")
               \o Sel(PcRank > 3 /\ pass_facts.render_due, "draw")
               \o Sel(PcRank > 4 /\ pass_facts.tick_due /\ pass_facts.had_despawned,
                      "despawn")
               \o Sel(PcRank > 5 /\ pass_facts.had_picking_update, "picking")

C3_Witness ==
    /\ pc = "sleep"
    /\ sent_log = <<"events", "draw", "despawn", "picking">>

\* C4: the phases of one iteration run in the order pick, variable tick (if
\* due), fixed tick (if due), render (if due), end of frame (only if the
\* variable tick ran in this iteration), sleep; none runs twice
C4_PhasesOfAPassInOrder ==
    phase_log = IF pc = "pick" /\ pass = 0 THEN <<>>
                ELSE <<"pick">>
                     \o Sel(PcRank > 1 /\ pass_facts.tick_due, "variable_tick")
                     \o Sel(PcRank > 2 /\ pass_facts.fixed_due, "fixed_tick")
                     \o Sel(PcRank > 3 /\ pass_facts.render_due, "render")
                     \o Sel(PcRank > 4 /\ pass_facts.tick_due, "end_frame")
                     \o Sel(pc = "pick", "sleep")

C4_Witness ==
    /\ pc = "pick"
    /\ phase_log = <<"pick", "fixed_tick", "render", "sleep">>
    /\ pass_facts.had_despawned

\* C5: a send never holds the simulation thread, and the loop can always
\* take its next step, whatever the rendering thread has consumed
C5_SimulationNeverWaitsForRenderer ==
    /\ pc # "blocked"
    /\ (pc # "sleep" \/ pass < MaxPasses) => ENABLED SimNext

C5_Witness ==
    /\ pc = "sleep"
    /\ pass = MaxPasses
    /\ rt_received = <<>>
    /\ Len(render_channel) > MaxPasses + 1

\* C6: a draw list reaches the rendering thread in the message that carries
\* the updates of its render phase, and after every message that carries the
\* updates of an earlier render phase
C6_DrawListNeverAheadOfUpdates ==
    \A i \in DOMAIN rt_received :
        rt_received[i].infos_pass # NoPassNumber =>
            /\ rt_received[i].upd_pass = rt_received[i].infos_pass
            /\ \A j \in DOMAIN render_channel :
                  render_channel[j].upd_pass # NoPassNumber =>
                      render_channel[j].upd_pass > rt_received[i].infos_pass
            /\ \A j \in DOMAIN rt_received :
                  (/\ rt_received[j].upd_pass # NoPassNumber
                   /\ rt_received[j].upd_pass <= rt_received[i].infos_pass) => j <= i

C6_Witness ==
    \E i, j \in DOMAIN rt_received :
        /\ i < j
        /\ rt_received[i].infos_pass # NoPassNumber
        /\ rt_received[j].infos_pass # NoPassNumber
        /\ rt_received[j].n_upd > 0

\* C7: compute_color_picked_entity leaves no callback pending; the last of
\* the pending ones decides: its colour is looked up in the registry (no
\* entity when it is not registered), a callback without a colour stores no
\* entity; with nothing pending the stored entity stays
C7_LastCallbackDecidesPickedEntity ==
    pick_last.valid =>
        /\ render_callback_channel = <<>>
        /\ IF pick_last.pending = <<>>
           THEN color_picked_entity = pick_last.before
           ELSE LET last == pick_last.pending[Len(pick_last.pending)]
                    registry == color_picking_storage.color_to_entity
                IN  color_picked_entity =
                        IF last # NoColor /\ as_u32(last) \in DOMAIN registry
                        THEN registry[as_u32(last)]
                        ELSE NoEntity

C7_Witness ==
    /\ pick_last.valid
    /\ Len(pick_last.pending) > 1
    /\ pick_last.pending[1] = NoColor
    /\ color_picked_entity # NoEntity

\* C14: once the despawn of a registered entity has been handled by the end
\* of frame, the entity is in neither map of the colour-picking registry
\* (its colour id is free again), so that its colour never resolves to it
C14_DespawnReclaimsColour ==
    \A e \in Entities :
        (~world[e].alive /\ \A i \in DOMAIN despawned : despawned[i] # e) =>
            /\ ~entity_registered(color_picking_storage, e)
            /\ \A c \in DOMAIN color_picking_storage.color_to_entity :
                  color_picking_storage.color_to_entity[c] # e

(***************************************************************************)
(* ColorPickingStorage on its own (color_picking.rs): any sequence of      *)
(* create_picking and get_entity_from_color.                               *)
(***************************************************************************)
PickEntities == 1..MaxPickEntities

\* the colours a caller may ask about: those of the first indexes
AskedColors == {color_from_u32(i) : i \in 1..(MaxPickEntities + 1)}

NoPickCall == [op |-> "none", entity |-> NoEntity, color |-> NoColor,
               before |-> DefaultColorPickingStorage]

PickIdle ==
    /\ pick_call = NoPickCall
    /\ pick_first = EmptyMap

CreatePicking(e) ==
    /\ LET r == create_picking(color_picking_storage, e)
       IN  /\ color_picking_storage' = r.cps
           /\ pick_call' = [op |-> "create_picking", entity |-> e, color |-> r.color,
                            before |-> color_picking_storage]
           /\ pick_first' = IF e \in DOMAIN pick_first THEN pick_first
                            ELSE MapInsert(pick_first, e, r.color)
    /\ UNCHANGED <<world, vertex_buffers, indexes_buffers, updates, before_pass>>
    /\ UNCHANGED <<hierVars, animVars, runVars, restButPick>>

GetEntityFromColor(c) ==
    /\ pick_call' = [op |-> "get_entity_from_color",
                     entity |-> get_entity_from_color(color_picking_storage, c),
                     color |-> c, before |-> color_picking_storage]
    /\ UNCHANGED <<bufferVars, hierVars, animVars, runVars, pick_first, restButPick>>

PickNext ==
    \/ \E e \in PickEntities : CreatePicking(e)
    \/ \E c \in AskedColors : GetEntityFromColor(c)

\* the id of a despawned entity is reclaimed: the entity leaves both maps
\* and its id joins the free list
ReclaimPicking(e) ==
    /\ entity_registered(color_picking_storage, e)
    /\ color_picking_storage.next_color_index <= MaxColorIndex
    /\ LET id == color_picking_storage.entity_to_color[e]
       IN  /\ color_picking_storage' =
                 [color_picking_storage EXCEPT
                     !.entity_to_color = MapRemove(@, e),
                     !.color_to_entity = MapRemove(@, id),
                     !.available_colors_indexes = Append(@, id)]
           /\ pick_call' = [op |-> "reclaim", entity |-> e,
                            color |-> color_from_u32(id),
                            before |-> color_picking_storage]
    /\ pick_first' = MapRemove(pick_first, e)
    /\ UNCHANGED <<world, vertex_buffers, indexes_buffers, updates, before_pass>>
    /\ UNCHANGED <<hierVars, animVars, runVars, restButPick>>

\* the registry with entities coming and going
ReclaimNext ==
    \/ \E e \in PickEntities : CreatePicking(e)
    \/ \E e \in PickEntities : ReclaimPicking(e)

\* C32: after any sequence of create_picking calls entity_to_color and
\* color_to_entity are inverse of each other, two registered entities
\* never share an id, and no entity has the id 0
C32_RegistryMapsAreInverse ==
    LET entity_to_color == color_picking_storage.entity_to_color
        color_to_entity == color_picking_storage.color_to_entity
    IN  /\ \A e \in DOMAIN entity_to_color :
              /\ entity_to_color[e] \in DOMAIN color_to_entity
              /\ color_to_entity[entity_to_color[e]] = e
              /\ entity_to_color[e] # 0
        /\ \A c \in DOMAIN color_to_entity :
              /\ color_to_entity[c] \in DOMAIN entity_to_color
              /\ entity_to_color[color_to_entity[c]] = c
              /\ c # 0
        /\ \A e, f \in DOMAIN entity_to_color :
              e # f => entity_to_color[e] # entity_to_color[f]

\* three entities were registered, the first of them asked for again
C32_Witness ==
    /\ pick_call.op = "create_picking"
    /\ Cardinality(DOMAIN color_picking_storage.entity_to_color) = 3
    /\ Cardinality(DOMAIN color_picking_storage.color_to_entity) = 3
    /\ entity_registered(pick_call.before, pick_call.entity)
    /\ pick_call.color = color_from_u32(1)

\* C33: create_picking that registers a new entity with an id taken from
\* the free list leaves next_color_index as it was
C33_FreeListIdLeavesCounter ==
    ( /\ pick_call.op = "create_picking"
      /\ ~entity_registered(pick_call.before, pick_call.entity)
      /\ pick_call.before.available_colors_indexes # <<>> ) =>
        /\ color_picking_storage.entity_to_color[pick_call.entity]
              = Head(pick_call.before.available_colors_indexes)
        /\ color_picking_storage.next_color_index
              = pick_call.before.next_color_index

\* C13: create_picking for an entity that is registered returns the colour
\* its first call returned and leaves the registry (both maps, the free
\* list, the next index) as it was
C13_CreatePickingIdempotent ==
    (/\ pick_call.op = "create_picking"
     /\ entity_registered(pick_call.before, pick_call.entity)) =>
        /\ pick_call.color = pick_first[pick_call.entity]
        /\ color_picking_storage = pick_call.before

\* a second entity was registered between two calls for the same entity
C13_Witness ==
    /\ pick_call.op = "create_picking"
    /\ entity_registered(pick_call.before, pick_call.entity)
    /\ Cardinality(DOMAIN pick_call.before.entity_to_color) >= 2
    /\ pick_call.before.entity_to_color[pick_call.entity] = 1
    /\ pick_call.color = color_from_u32(1)

(***************************************************************************)
(* FrameLimiter and the two phases of launch_game_loop it gates.  Time     *)
(* passes between any two steps of the loop.  A fixed update is due when   *)
(* FixedInterval has elapsed since the instant fixed_tick recorded, a      *)
(* render when RenderInterval has elapsed since the instant render         *)
(* recorded.                                                               *)
(***************************************************************************)
\* FrameLimiter::is_fixed_update
is_fixed_update(now, last_fixed) == now - last_fixed >= FixedInterval

\* FrameLimiter::render_unlocked
render_unlocked(now, last_render) == now - last_render >= RenderInterval

\* FrameLimiter::fixed_tick: records the instant of the fixed update
fixed_tick(now, last_fixed) == now

\* FrameLimiter::render: records the instant of the render
render(now, last_render) == now

\* FrameLimiter::new
LimInit ==
    /\ lim_now = 0
    /\ lim_last_fixed = 0
    /\ lim_last_render = 0
    /\ lim_pc = "fixed"
    /\ lim_fixed_count = 0
    /\ lim_render_count = 0
    /\ lim_pass_fixed = 0
    /\ lim_pass_render = 0

\* the clock advances
TimePasses ==
    /\ lim_now < MaxTime
    /\ lim_now' = lim_now + 1
    /\ UNCHANGED <<lim_last_fixed, lim_last_render, lim_pc, lim_fixed_count,
                   lim_render_count, lim_pass_fixed, lim_pass_render>>
    /\ UNCHANGED <<bufferVars, hierVars, animVars, runVars, restButLim>>

\* lines 64-68 without line 67: the fixed update is not recorded
LimFixedPhase_without_fixed_tick ==
    /\ lim_pc = "fixed"
    /\ IF is_fixed_update(lim_now, lim_last_fixed)
       THEN /\ lim_fixed_count' = lim_fixed_count + 1
            /\ lim_pass_fixed' = lim_pass_fixed + 1
       ELSE UNCHANGED <<lim_fixed_count, lim_pass_fixed>>
    /\ lim_pc' = "render"
    /\ UNCHANGED <<lim_now, lim_last_fixed, lim_last_render, lim_render_count,
                   lim_pass_render>>
    /\ UNCHANGED <<bufferVars, hierVars, animVars, runVars, restButLim>>

\* lines 64-68
LimFixedPhase ==
    /\ lim_pc = "fixed"
    /\ IF is_fixed_update(lim_now, lim_last_fixed)
       THEN /\ lim_fixed_count' = lim_fixed_count + 1
            /\ lim_pass_fixed' = lim_pass_fixed + 1
            /\ lim_last_fixed' = fixed_tick(lim_now, lim_last_fixed)
       ELSE UNCHANGED <<lim_fixed_count, lim_pass_fixed, lim_last_fixed>>
    /\ lim_pc' = "render"
    /\ UNCHANGED <<lim_now, lim_last_render, lim_render_count, lim_pass_render>>
    /\ UNCHANGED <<bufferVars, hierVars, animVars, runVars, restButLim>>

\* lines 70-78
LimRenderPhase ==
    /\ lim_pc = "render"
    /\ IF render_unlocked(lim_now, lim_last_render)
       THEN /\ lim_render_count' = lim_render_count + 1
            /\ lim_pass_render' = lim_pass_render + 1
            /\ lim_last_render' = render(lim_now, lim_last_render)
       ELSE UNCHANGED <<lim_render_count, lim_pass_render, lim_last_render>>
    /\ lim_pc' = "sleep"
    /\ UNCHANGED <<lim_now, lim_last_fixed, lim_fixed_count, lim_pass_fixed>>
    /\ UNCHANGED <<bufferVars, hierVars, animVars, runVars, restButLim>>

\* line 94, and the start of the next pass
LimSleep ==
    /\ lim_pc = "sleep"
    /\ lim_pc' = "fixed"
    /\ lim_pass_fixed' = 0
    /\ lim_pass_render' = 0
    /\ UNCHANGED <<lim_now, lim_last_fixed, lim_last_render, lim_fixed_count,
                   lim_render_count>>
    /\ UNCHANGED <<bufferVars, hierVars, animVars, runVars, restButLim>>

LimNext ==
    \/ TimePasses
    \/ LimFixedPhase
    \/ LimRenderPhase
    \/ LimSleep

\* C15: up to the instant t the loop has fired at most floor(t /
\* FixedInterval) fixed updates and at most floor(t / RenderInterval)
\* renders, and at most one of each in a pass
C15_LimiterBoundsFixedAndRender ==
    /\ lim_fixed_count <= lim_now \div FixedInterval
    /\ lim_render_count <= lim_now \div RenderInterval
    /\ lim_pass_fixed <= 1
    /\ lim_pass_render <= 1

\* both bounds are met at the last instant, the loop having polled the
\* limiter more often than the clock advanced
C15_Witness ==
    /\ lim_now = MaxTime
    /\ lim_fixed_count = MaxTime \div FixedInterval
    /\ lim_render_count = MaxTime \div RenderInterval
    /\ lim_fixed_count >= 1
    /\ lim_render_count >= 1

(***************************************************************************)
(* A transform animation from construction to its end.  Vectors have       *)
(* integer coordinates and the numbers of keyframes are powers of two that *)
(* divide them, for which the f32 division of the code is exact.  A scale  *)
(* or a rotation is kept in thousandths (rotation 1.0 is 1000), so that    *)
(* its share of a keyframe is a whole number too; a Duration is kept in    *)
(* microseconds.                                                           *)
(***************************************************************************)
Vector(x, y) == [x |-> x, y |-> y]

\* Option<T>
None == [some |-> FALSE, v |-> 0]

Some(v) == [some |-> TRUE, v |-> v]

\* Duration::as_millis of a duration in microseconds
as_millis(duration) == duration \div 1000

\* Duration::div by a u32: the whole number of nanoseconds is divided
div(duration, n) == duration \div n

\* the durations of the animations built: none, half a millisecond, one
\* millisecond, one second
MoveDurations == {0, 500, 1000, 1000000}

\* the scale of the animations built: none or 4.0
MoveScales == {None, Some(4000)}

\* the rotation of the animations built: none or 1.0
MoveRotations == {None, Some(1000)}

\* the translations of the animations built
MoveVectors == {Vector(10, 0), Vector(-4, 0), Vector(0, 8), Vector(2, 4)}

MoveKeyframes == {k \in 1..MaxMoveKeyframes : k \in {1, 2, 4}}

NoKeyframeModifier ==
    [some |-> FALSE, vector |-> Vector(0, 0), scale |-> None, rotation |-> None]

\* AnimationModifier::transform with a vector and an optional scale and
\* rotation (AnimationModifier::new leaves the two computed fields empty)
transform(number_of_keyframes, vector, scale, rotation) ==
    [number_of_keyframes |-> number_of_keyframes, current_keyframe |-> 0,
     vector |-> vector, scale |-> scale, rotation |-> rotation,
     single_keyframe_duration |-> None,
     single_keyframe_modifier |-> NoKeyframeModifier]

\* the whole translation taken as the translation of one keyframe
compute_animation_keyframe_modifier_undivided(modifier) ==
    [modifier EXCEPT !.single_keyframe_modifier =
        [some |-> TRUE, vector |-> modifier.vector,
         scale |-> modifier.scale, rotation |-> modifier.rotation]]

compute_animation_keyframe_modifier(modifier) ==
    LET keyframe_nb == modifier.number_of_keyframes
        share(o) == IF o.some THEN Some(o.v \div keyframe_nb) ELSE None
    IN  [modifier EXCEPT !.single_keyframe_modifier =
            [some |-> TRUE,
             vector |-> Vector(modifier.vector.x \div keyframe_nb,
                               modifier.vector.y \div keyframe_nb),
             scale |-> share(modifier.scale),
             rotation |-> share(modifier.rotation)]]

\* Animation::initialise_animation
initialise_animation(duration, modifiers) ==
    IF as_millis(duration) # 0
    THEN [i \in DOMAIN modifiers |->
            compute_animation_keyframe_modifier(
                [modifiers[i] EXCEPT !.single_keyframe_duration =
                    Some(div(duration, modifiers[i].number_of_keyframes))])]
    ELSE modifiers

\* Animation::new
NewAnimation(duration, modifiers) ==
    [_duration |-> duration, status |-> Stopped,
     modifiers |-> initialise_animation(duration, modifiers)]

NoMove == [ran |-> FALSE, x0 |-> 0, k0 |-> 0, passes |-> 0]

MoveIdle ==
    /\ mv_animations = EmptyMap
    /\ mv_x = 0
    /\ mv_panicked = FALSE
    /\ mv_hist = NoMove

\* an entity with Transform::from_xy(x, 0) and no Animations yet
MoveInit ==
    /\ mv_animations = EmptyMap
    /\ mv_x \in {0, 3}
    /\ mv_panicked = FALSE
    /\ mv_hist = NoMove

\* Animations::single("move", Animation::new(duration, vec![transform(..)]))
\* added to the entity
MoveNewAnimation(duration, modifier) ==
    /\ mv_animations = EmptyMap
    /\ mv_animations' = [n \in {"move"} |-> NewAnimation(duration, <<modifier>>)]
    /\ UNCHANGED <<mv_x, mv_panicked, mv_hist>>
    /\ UNCHANGED <<bufferVars, hierVars, animVars, runVars, restButMove>>

MoveRunAnimation ==
    /\ ~mv_panicked
    /\ mv_animations # EmptyMap
    /\ mv_x \in -MaxX..MaxX
    /\ LET r == run_animation(mv_animations, "move")
       IN  /\ mv_animations' = r.anims
           /\ mv_hist' = IF r.ok
                         THEN [ran |-> TRUE, x0 |-> mv_x,
                               k0 |-> mv_animations["move"].modifiers[1].current_keyframe,
                               passes |-> 0]
                         ELSE mv_hist
    /\ UNCHANGED <<mv_x, mv_panicked>>
    /\ UNCHANGED <<bufferVars, hierVars, animVars, runVars, restButMove>>

MoveStopAnimation(force) ==
    /\ ~mv_panicked
    /\ mv_animations # EmptyMap
    /\ mv_animations' = stop_animation(mv_animations, "move", force).anims
    /\ mv_hist' = NoMove
    /\ UNCHANGED <<mv_x, mv_panicked>>
    /\ UNCHANGED <<bufferVars, hierVars, animVars, runVars, restButMove>>

\* one pass of the animation system over the entity: an animation that is
\* playing has one keyframe of its modifier applied to the transform
\* (retrieve_keyframe_modifier expects the computed modifier), then its
\* status is checked
MoveUpdatePass ==
    /\ ~mv_panicked
    /\ mv_animations # EmptyMap
    /\ LET animation == mv_animations["move"]
           m == animation.modifiers[1]
       IN  IF animation.status \in {Running, Looping, Stopping}
           THEN IF ~m.single_keyframe_modifier.some
                THEN /\ mv_panicked' = TRUE
                     /\ UNCHANGED <<mv_animations, mv_x, mv_hist>>
                ELSE /\ mv_x' = mv_x + m.single_keyframe_modifier.vector.x
                     /\ mv_animations' =
                           [mv_animations EXCEPT !["move"] =
                               try_update_status(
                                   [animation EXCEPT !.modifiers[1].current_keyframe = @ + 1])]
                     /\ mv_hist' = [mv_hist EXCEPT !.passes = @ + 1]
                     /\ UNCHANGED mv_panicked
           ELSE /\ mv_animations' =
                      [mv_animations EXCEPT !["move"] = try_update_status(animation)]
                /\ mv_hist' = NoMove
                /\ UNCHANGED <<mv_x, mv_panicked>>
    /\ UNCHANGED <<bufferVars, hierVars, animVars, runVars, restButMove>>

MoveNext ==
    \/ \E duration \in MoveDurations, k \in MoveKeyframes, v \in MoveVectors,
          scale \in MoveScales, rotation \in MoveRotations :
          MoveNewAnimation(duration, transform(k, v, scale, rotation))
    \/ MoveRunAnimation
    \/ \E force \in BOOLEAN : MoveStopAnimation(force)
    \/ MoveUpdatePass

MoveModifier == mv_animations["move"].modifiers[1]

\* C16: after run_animation succeeded on an animation at its keyframe 0 and
\* as many update passes as the animation has keyframes, each applying one
\* keyframe, the transform has moved by the whole translation (two passes of 10 / 2 take x from 0 to
\* 10), and the animation is Stopped with current_keyframe 0; before that
\* it has moved by one keyframe's share per pass
C16_TransformAnimationReachesTotal ==
    (mv_hist.ran /\ mv_hist.k0 = 0) =>
        IF mv_hist.passes = MoveModifier.number_of_keyframes
        THEN /\ mv_x = mv_hist.x0 + MoveModifier.vector.x
             /\ mv_animations["move"].status = Stopped
             /\ MoveModifier.current_keyframe = 0
        ELSE /\ mv_hist.passes < MoveModifier.number_of_keyframes
             /\ mv_x * MoveModifier.number_of_keyframes
                   = mv_hist.x0 * MoveModifier.number_of_keyframes
                     + mv_hist.passes * MoveModifier.vector.x
             /\ MoveModifier.current_keyframe = mv_hist.passes

C16_Witness ==
    /\ mv_hist = [ran |-> TRUE, x0 |-> 0, k0 |-> 0, passes |-> 2]
    /\ MoveModifier.number_of_keyframes = 2
    /\ MoveModifier.vector = Vector(10, 0)
    /\ mv_x = 10
    /\ mv_animations["move"].status = Stopped
    /\ MoveModifier.current_keyframe = 0

\* C29: Animation::new with a non-zero duration gives every modifier a
\* single keyframe duration of duration / number_of_keyframes and, for a
\* transform modifier, a vector, a scale and a rotation per keyframe equal
\* to the configured totals divided by number_of_keyframes
C29_NonZeroDurationInitialisesModifiers ==
    (mv_animations # EmptyMap /\ mv_animations["move"]._duration # 0) =>
        \A i \in DOMAIN mv_animations["move"].modifiers :
            LET m == mv_animations["move"].modifiers[i]
                n == m.number_of_keyframes
                part(o) == IF o.some THEN Some(o.v \div n) ELSE None
            IN  /\ m.single_keyframe_duration
                      = Some(mv_animations["move"]._duration \div n)
                /\ m.single_keyframe_modifier.some
                /\ m.single_keyframe_modifier.vector
                      = Vector(m.vector.x \div n, m.vector.y \div n)
                /\ m.single_keyframe_modifier.scale = part(m.scale)
                /\ m.single_keyframe_modifier.rotation = part(m.rotation)

\* the same for the durations of one millisecond and more, the ones that
\* initialise_animation does not take for zero
C29_WholeMillisecondsInitialiseModifiers ==
    (mv_animations # EmptyMap /\ as_millis(mv_animations["move"]._duration) # 0) =>
        C29_NonZeroDurationInitialisesModifiers

\* the animation of duration_divider_test: one second, two keyframes,
\* vector (2, 4), scale 4, rotation 1 give 500 ms, (1, 2), 2 and 0.5
C29_WitnessDividerTest ==
    /\ mv_animations # EmptyMap
    /\ mv_animations["move"]._duration = 1000000
    /\ MoveModifier.number_of_keyframes = 2
    /\ MoveModifier.single_keyframe_duration = Some(500000)
    /\ MoveModifier.single_keyframe_modifier
          = [some |-> TRUE, vector |-> Vector(1, 2),
             scale |-> Some(2000), rotation |-> Some(500)]

(***************************************************************************)
(* The depth bias of the tiles (prepare_buffer_update_for_tilemap, lines   *)
(* 108-137).  offset_z is a usize: a subtraction below zero panics in a    *)
(* build with overflow checks and wraps in one without.  The bias is       *)
(* offset_z as f32 * 0.00001, kept here as the number of 0.00001 units;    *)
(* a wrapped offset_z is above 2^63, where the f32 conversion gives the    *)
(* same value for all the offsets of a tilemap.                            *)
(***************************************************************************)
Position(x, y, z) == [x |-> x, y |-> y, z |-> z]

\* the positions Tilemap::create gives to the tiles
TilePositions(width, height, depth) ==
    {Position(x, y, z) : x \in 0..(width - 1), y \in 0..(height - 1), z \in 0..(depth - 1)}

\* a - b on usize: the difference, and whether it went below zero
usize_sub(a, b) == [under |-> a < b, v |-> a - b]

\* line 127 without the tile's z
standard_offset_z_without_z(tilemap, position) ==
    usize_sub(tilemap.depth * 100, position.x * 10)

\* line 127
standard_offset_z(tilemap, position) ==
    usize_sub(tilemap.depth * 100, position.z * 10)

\* line 125
isometric_offset_z(tilemap, position) ==
    LET max_x == tilemap.width
        a == usize_sub(max_x, position.z)
        b == usize_sub(max_x, position.y)
    IN  [under |-> a.under \/ b.under,
         v |-> a.v * (max_x + 1) + position.x * (max_x + 1) + b.v]

offset_z(tilemap, position) ==
    IF tilemap.isometric THEN isometric_offset_z(tilemap, position)
    ELSE standard_offset_z(tilemap, position)

\* line 134: offset_z as f32 * 0.00001
depth_bias(offset) ==
    IF offset.under THEN [huge |-> TRUE, units |-> 0]
    ELSE [huge |-> FALSE, units |-> offset.v]

NoTilemap ==
    [width |-> 0, height |-> 0, depth |-> 0, isometric |-> FALSE,
     tile_entities |-> EmptyMap]

\* Tilemap::new
Tilemap(dimensions, isometric) ==
    [width |-> dimensions.width, height |-> dimensions.height,
     depth |-> dimensions.depth, isometric |-> isometric,
     tile_entities |-> EmptyMap]

Dimensions(width, height, depth) ==
    [width |-> width, height |-> height, depth |-> depth]

\* the Tile component, or its absence
NoTile == [some |-> FALSE, position |-> Position(0, 0, 0), tilemap |-> NoEntity]

Tile(position, tilemap) == [some |-> TRUE, position |-> position, tilemap |-> tilemap]

\* the components of an entity that is neither a tilemap nor a tile
OtherComponents ==
    [is_tilemap |-> FALSE, tile |-> NoTile, parent |-> NoEntity, sprite |-> FALSE]

\* World::push: the components are given to an entity that did not exist
world_push(w, components) ==
    [world |-> Append(w, components), entity |-> Len(w) + 1]

\* lines 290-298
create_tilemap(w) ==
    world_push(w, [OtherComponents EXCEPT !.is_tilemap = TRUE])

\* the positions in the order of the three loops of lines 157-160, x
\* outermost
LoopPositions(dimensions) ==
    [i \in 1..(dimensions.width * dimensions.height * dimensions.depth) |->
        Position((i - 1) \div (dimensions.height * dimensions.depth),
                 ((i - 1) \div dimensions.depth) % dimensions.height,
                 (i - 1) % dimensions.depth)]

\* the body of the loops with the tile indexed by its column only
create_tile_indexed_by_column(state, self_entity, position, has_sprite) ==
    LET pushed == world_push(state.world,
                      [OtherComponents EXCEPT !.tile = Tile(position, self_entity),
                                              !.parent = self_entity])
    IN  [world |-> IF has_sprite
                   THEN [pushed.world EXCEPT ![pushed.entity].sprite = TRUE]
                   ELSE pushed.world,
         tilemap |-> [state.tilemap EXCEPT !.tile_entities =
                         MapInsert(@, Position(position.x, position.y, 0),
                                   pushed.entity)]]

\* the body of the loops (lines 160-195): the tile is pushed with its Tile
\* and Parent, given a Sprite when the resolver has a tile number for it,
\* and entered in the index of the tilemap
create_tile(state, self_entity, position, has_sprite) ==
    LET pushed == world_push(state.world,
                      [OtherComponents EXCEPT !.tile = Tile(position, self_entity),
                                              !.parent = self_entity])
    IN  [world |-> IF has_sprite
                   THEN [pushed.world EXCEPT ![pushed.entity].sprite = TRUE]
                   ELSE pushed.world,
         tilemap |-> [state.tilemap EXCEPT !.tile_entities =
                         MapInsert(@, position, pushed.entity)]]

RECURSIVE create_tiles(_, _, _, _, _)
create_tiles(state, self_entity, positions, i, tile_resolver) ==
    IF i > Len(positions) THEN state
    ELSE create_tiles(create_tile(state, self_entity, positions[i],
                                  positions[i] \in tile_resolver),
                      self_entity, positions, i + 1, tile_resolver)

\* Tilemap::create; tile_resolver is the set of the positions for which
\* the resolver gives a tile number
Tilemap_create(w, dimensions, isometric, tile_resolver) ==
    LET made == create_tilemap(w)
        after == create_tiles([world |-> made.world,
                               tilemap |-> Tilemap(dimensions, isometric)],
                              made.entity, LoopPositions(dimensions), 1, tile_resolver)
    IN  [world |-> after.world, tilemap |-> after.tilemap, entity |-> made.entity]

TileIdle ==
    /\ td_tilemap = NoTilemap
    /\ td_sprites = {}
    /\ td_bias = EmptyMap
    /\ td_pc = "idle"
    /\ td_world = <<>>
    /\ td_entity = NoEntity

\* a world of a few entities, no tilemap among them
TileInit ==
    /\ td_tilemap = NoTilemap
    /\ td_sprites = {}
    /\ td_bias = EmptyMap
    /\ td_pc = "idle"
    /\ td_world \in {[i \in 1..n |-> OtherComponents] : n \in 0..MaxPriorEntities}
    /\ td_entity = NoEntity

\* Tilemap::create: the tile resolver decides which tiles have a Sprite
TileCreate(dimensions, isometric, tile_resolver) ==
    /\ td_pc = "idle"
    /\ LET created == Tilemap_create(td_world, dimensions, isometric, tile_resolver)
       IN  /\ td_world' = created.world
           /\ td_tilemap' = created.tilemap
           /\ td_entity' = created.entity
    /\ td_sprites' = tile_resolver
    /\ td_pc' = "created"
    /\ UNCHANGED td_bias
    /\ UNCHANGED <<bufferVars, hierVars, animVars, runVars, restButTile>>

\* the tile loop of the first pass over the tilemap
TilePass ==
    /\ td_pc = "created"
    /\ \E overflow_checks \in BOOLEAN :
          IF overflow_checks /\ \E q \in td_sprites : offset_z(td_tilemap, q).under
          THEN /\ td_pc' = "panicked"
               /\ UNCHANGED td_bias
          ELSE /\ td_pc' = "done"
               /\ td_bias' = [q \in td_sprites |-> depth_bias(offset_z(td_tilemap, q))]
    /\ UNCHANGED <<td_tilemap, td_sprites, td_world, td_entity>>
    /\ UNCHANGED <<bufferVars, hierVars, animVars, runVars, restButTile>>

\* a tile's sprite is modified by the scene, and the tilemap is uploaded
\* again by the next pass
TileModified ==
    /\ td_pc = "done"
    /\ td_sprites # {}
    /\ td_pc' = "created"
    /\ td_bias' = EmptyMap
    /\ UNCHANGED <<td_tilemap, td_sprites, td_world, td_entity>>
    /\ UNCHANGED <<bufferVars, hierVars, animVars, runVars, restButTile>>

TileNext ==
    \/ \E width \in 0..MaxWidth, height \in 0..MaxHeight, depth \in 0..MaxDepth,
          isometric \in BOOLEAN :
          \E tile_resolver \in SUBSET TilePositions(width, height, depth) :
             TileCreate(Dimensions(width, height, depth), isometric, tile_resolver)
    \/ TilePass
    \/ TileModified

\* C17: in a Standard tilemap the bias of a tile is depth * 100 - z * 10
\* units: two tiles have the same bias exactly when they have the same z
C17_StandardBiasDependsOnZOnly ==
    (td_pc = "done" /\ ~td_tilemap.isometric) =>
        \A q, r \in DOMAIN td_bias :
            /\ td_bias[q] = [huge |-> FALSE, units |-> td_tilemap.depth * 100 - q.z * 10]
            /\ (q.z = r.z) <=> (td_bias[q] = td_bias[r])

\* two tiles of one layer and a tile of another layer were given a bias
C17_Witness ==
    /\ td_pc = "done"
    /\ ~td_tilemap.isometric
    /\ \E q, r, s \in DOMAIN td_bias :
          /\ q # r /\ q.z = r.z /\ td_bias[q] = td_bias[r]
          /\ s.z # q.z /\ td_bias[s] # td_bias[q]

\* C38: for every tile inside the dimensions of its tilemap the pass
\* computes the bias without going below zero: it does not end in a panic
\* and the bias is depth * 100 - z * 10 units in a Standard tilemap and
\* (width - z) * (width + 1) + x * (width + 1) + (width - y) units in an
\* Isometric one, whatever the width, the height and the depth
C38_BiasComputedWithoutUnderflow ==
    /\ td_pc # "panicked"
    /\ td_pc = "done" =>
          \A q \in DOMAIN td_bias :
              /\ q \in TilePositions(td_tilemap.width, td_tilemap.height, td_tilemap.depth)
              /\ ~td_bias[q].huge
              /\ td_bias[q].units =
                    IF td_tilemap.isometric
                    THEN (td_tilemap.width - q.z) * (td_tilemap.width + 1)
                         + q.x * (td_tilemap.width + 1)
                         + (td_tilemap.width - q.y)
                    ELSE td_tilemap.depth * 100 - q.z * 10

\* the same in the tilemaps where no layer and no row is beyond the width
C38_BiasComputedWhenWidthBoundsLayersAndRows ==
    (td_tilemap.depth <= td_tilemap.width + 1
        /\ td_tilemap.height <= td_tilemap.width + 1)
    => C38_BiasComputedWithoutUnderflow

\* C27: after Tilemap::create the index of the tilemap has one entry for
\* every position below the dimensions and no other entry; the indexed
\* entities exist, are pairwise distinct, and each carries the Tile of its
\* key, whose tilemap is the created tilemap, and Parent(tilemap)
C27_IndexCoversEveryPosition ==
    td_pc # "idle" =>
        LET tile_entities == td_tilemap.tile_entities
        IN  /\ DOMAIN tile_entities
                  = TilePositions(td_tilemap.width, td_tilemap.height, td_tilemap.depth)
            /\ td_entity \in DOMAIN td_world
            /\ td_world[td_entity].is_tilemap
            /\ \A q \in DOMAIN tile_entities :
                  /\ tile_entities[q] \in DOMAIN td_world
                  /\ td_world[tile_entities[q]].tile = Tile(q, td_entity)
                  /\ td_world[tile_entities[q]].parent = td_entity
                  /\ \A r \in DOMAIN tile_entities :
                        q # r => tile_entities[q] # tile_entities[r]

\* a tilemap of several columns and layers created in a world that had an
\* entity already
C27_Witness ==
    /\ td_pc = "created"
    /\ td_tilemap.width = 2 /\ td_tilemap.height = 1 /\ td_tilemap.depth = 2
    /\ Cardinality(DOMAIN td_tilemap.tile_entities) = 4
    /\ td_entity = 2
    /\ td_world[td_tilemap.tile_entities[Position(1, 0, 1)]].sprite

\* a dimension of zero: the tilemap is created and its index is empty
C27_WitnessEmpty ==
    /\ td_pc = "created"
    /\ td_tilemap.width = 2 /\ td_tilemap.depth = 0
    /\ td_tilemap.tile_entities = EmptyMap
    /\ td_entity \in DOMAIN td_world

\* ---------------------------------------------------------------------
\* One pass of launch_game_loop, statement by statement
\* (src/core/scion_runner.rs, lines 45-95)
\* ---------------------------------------------------------------------

\* the statements of the loop body, in the order the code writes them
LoopBody_update_before_events ==
    << "compute_color_picked_entity", "is_min_tick", "time_frame",
       "timers_add_delta", "scene_update", "send_window_events",
       "scheduler_execute", "scene_late_update", "update_cursor",
       "fixed_update", "render", "end_of_frame", "reset_inputs",
       "events_cleanup", "scene_end_frame", "limiter_tick",
       "take_despawned", "picking_update", "sleep" >>

LoopBody_tick_recorded_first ==
    << "compute_color_picked_entity", "is_min_tick", "time_frame",
       "timers_add_delta", "send_window_events", "scene_update",
       "scheduler_execute", "scene_late_update", "update_cursor",
       "fixed_update", "render", "end_of_frame", "limiter_tick",
       "reset_inputs", "events_cleanup", "scene_end_frame",
       "take_despawned", "picking_update", "sleep" >>

\* lines 83-88 with take_despawned before the scene's EndFrame
LoopBody_despawned_taken_before_end_frame ==
    << "compute_color_picked_entity", "is_min_tick", "time_frame",
       "timers_add_delta", "send_window_events", "scene_update",
       "scheduler_execute", "scene_late_update", "update_cursor",
       "fixed_update", "render", "end_of_frame", "reset_inputs",
       "events_cleanup", "take_despawned", "scene_end_frame",
       "limiter_tick", "picking_update", "sleep" >>

LoopBody ==
    << "compute_color_picked_entity", "is_min_tick", "time_frame",
       "timers_add_delta", "send_window_events", "scene_update",
       "scheduler_execute", "scene_late_update", "update_cursor",
       "fixed_update", "render", "end_of_frame", "reset_inputs",
       "events_cleanup", "scene_end_frame", "limiter_tick",
       "take_despawned", "picking_update", "sleep" >>

\* the place of a statement in the loop body
StatementIndex(name) ==
    CHOOSE i \in 1..Len(LoopBody) : LoopBody[i] = name

\* the statement the loop is about to run
AtStatement(name) == st_pc \in DOMAIN LoopBody /\ LoopBody[st_pc] = name

\* the statements of the `if should_tick` block of lines 49-62
TickSteps ==
    << "time_frame", "timers_add_delta", "send_window_events",
       "scene_update", "scheduler_execute", "scene_late_update",
       "update_cursor" >>

\* the statements of the second `if should_tick` block of lines 80-89
EndSteps ==
    << "reset_inputs", "events_cleanup", "scene_end_frame", "limiter_tick",
       "take_despawned" >>

\* the systems of the scheduler, in registration order
Systems == 1..NumSystems

\* Scheduler::execute: every system once, in registration order
scheduler_execute == [i \in Systems |-> i]

\* what a scene callback or a system may ask of the world
SceneRequests == {"nothing", "despawn", "event", "cursor"}

\* what the callbacks of a game that only deals with its window ask
WindowRequests == {"nothing", "cursor", "size"}

\* the requests of the Window resource: new_cursor and new_dimensions are
\* Some or None; next to them, how many times update_cursor applied the
\* last request of a window size since it was made
NoRequests ==
    [new_cursor |-> FALSE, new_dimensions |-> FALSE, dimensions_applied |-> 0]

\* Window::set_cursor and Window::set_dimensions, called by a callback
window_after(req) ==
    IF req = "cursor"
    THEN [st_window EXCEPT !.new_cursor = TRUE]
    ELSE IF req = "size"
         THEN [st_window EXCEPT !.new_dimensions = TRUE, !.dimensions_applied = 0]
         ELSE st_window

\* Window::reset_future_settings
reset_future_settings(window) ==
    [window EXCEPT !.new_cursor = FALSE, !.new_dimensions = FALSE]

\* the count of applications, which stops at MaxApplied
applied_once_more(n) == IF n < MaxApplied THEN n + 1 ELSE n

\* ScionRunner::update_cursor, lines 121-135
update_cursor(window) ==
    LET applied ==
            [window EXCEPT
               !.dimensions_applied =
                   IF window.new_dimensions THEN applied_once_more(@) ELSE @]
    IN  IF window.new_cursor
        THEN reset_future_settings(applied)
        ELSE applied

\* the despawned list after a callback that made the request
despawned_after(req) ==
    IF req = "despawn" /\ Len(st_ever) < MaxDespawned
    THEN Append(st_despawned, Len(st_ever) + 1)
    ELSE st_despawned

\* the despawns so far after a callback that made the request
ever_after(req, by) ==
    IF req = "despawn" /\ Len(st_ever) < MaxDespawned
    THEN Append(st_ever, [pass |-> st_pass, by |-> by, tick |-> st_should_tick])
    ELSE st_ever

StepIdle ==
    /\ st_pc = 0
    /\ st_started = 0
    /\ st_should_tick = FALSE
    /\ st_pass = 0
    /\ st_time = 0
    /\ st_timers = 0
    /\ st_delta = 0
    /\ st_last_tick = 0
    /\ st_window_events = FALSE
    /\ st_inputs = FALSE
    /\ st_world_events = FALSE
    /\ st_window = NoRequests
    /\ st_despawned = <<>>
    /\ st_log = <<>>
    /\ st_scene_log = <<>>
    /\ st_systems_log = <<>>
    /\ st_sent = <<>>
    /\ st_had_despawned = FALSE
    /\ st_ever = <<>>
    /\ st_forwarded = <<>>
    /\ st_receiver = TRUE
    /\ st_failed = <<>>

\* where st_pc is after a panic of the simulation thread: no statement
Panicked == Len(LoopBody) + 1

\* Sender::send: Err when the receiver is gone
send_is_ok(receiver) == receiver

\* the sends that failed in this pass after a send of this kind
failed_after(kind) ==
    IF send_is_ok(st_receiver) THEN st_failed ELSE Append(st_failed, kind)

\* the statement is run: it is recorded and the loop moves to index `to`
Ran(name, to) ==
    /\ AtStatement(name)
    /\ st_log' = Append(st_log, name)
    /\ st_pc' = to

\* a scene action is dispatched: the scene may despawn an entity, raise a
\* one-shot event or ask for a cursor icon
ApplySceneAction(action, requests) ==
    \E req \in requests :
        /\ st_scene_log' = Append(st_scene_log, action)
        /\ st_despawned' = despawned_after(req)
        /\ st_ever' = ever_after(req, action)
        /\ st_world_events' = (st_world_events \/ req = "event")
        /\ st_window' = window_after(req)

\* the windowing system queues an event for the game loop
WindowEventArrives ==
    /\ ~st_window_events
    /\ st_window_events' = TRUE
    /\ UNCHANGED <<st_pc, st_should_tick, st_pass, st_time, st_timers,
                   st_delta, st_last_tick, st_inputs, st_world_events,
                   st_window, st_despawned, st_log, st_scene_log,
                   st_systems_log, st_sent, st_had_despawned>>
    /\ UNCHANGED <<st_started, st_ever, st_forwarded, st_receiver, st_failed>>
    /\ UNCHANGED <<bufferVars, hierVars, animVars, runVars, restButStep>>

\* line 34 and ScionRunner::setup (lines 114-120) with a window: the Window
\* resource is inserted and the scene gets Start, which may ask of the
\* world what any scene callback may
StepSetup_without_start(requests) ==
    /\ st_pc = 0
    /\ st_pc' = 1
    /\ UNCHANGED <<st_started, st_despawned, st_world_events,
                   st_window, st_ever, st_forwarded, st_receiver,
                   st_failed>>
    /\ UNCHANGED <<st_should_tick, st_pass, st_time, st_timers, st_delta,
                   st_last_tick, st_window_events, st_inputs, st_log,
                   st_scene_log, st_systems_log, st_sent, st_had_despawned>>
    /\ UNCHANGED <<bufferVars, hierVars, animVars, runVars, restButStep>>

StepSetup(requests) ==
    /\ st_pc = 0
    /\ st_pc' = 1
    /\ st_started' = st_started + 1
    /\ UNCHANGED <<st_forwarded, st_receiver, st_failed>>
    /\ \E req \in requests :
        /\ st_despawned' = despawned_after(req)
        /\ st_ever' = ever_after(req, "Start")
        /\ st_world_events' = (st_world_events \/ req = "event")
        /\ st_window' = window_after(req)
    /\ UNCHANGED <<st_should_tick, st_pass, st_time, st_timers, st_delta,
                   st_last_tick, st_window_events, st_inputs, st_log,
                   st_scene_log, st_systems_log, st_sent, st_had_despawned>>
    /\ UNCHANGED <<bufferVars, hierVars, animVars, runVars, restButStep>>

\* line 46
StepComputeColorPickedEntity ==
    /\ Ran("compute_color_picked_entity", st_pc + 1)
    /\ UNCHANGED <<st_should_tick, st_pass, st_time, st_timers, st_delta,
                   st_last_tick, st_window_events, st_inputs,
                   st_world_events, st_window, st_despawned,
                   st_scene_log, st_systems_log, st_sent, st_had_despawned>>
    /\ UNCHANGED <<st_started, st_ever, st_forwarded, st_receiver, st_failed>>
    /\ UNCHANGED <<bufferVars, hierVars, animVars, runVars, restButStep>>

\* lines 48-49: should_tick decides whether the block of lines 50-61 runs
StepIsMinTick ==
    \E due \in BOOLEAN :
        /\ Ran("is_min_tick",
               IF due THEN st_pc + 1 ELSE StatementIndex("fixed_update"))
        /\ st_should_tick' = due
    /\ UNCHANGED <<st_pass, st_time, st_timers, st_delta, st_last_tick,
                   st_window_events, st_inputs, st_world_events,
                   st_window, st_despawned, st_scene_log,
                   st_systems_log, st_sent, st_had_despawned>>
    /\ UNCHANGED <<st_started, st_ever, st_forwarded, st_receiver, st_failed>>
    /\ UNCHANGED <<bufferVars, hierVars, animVars, runVars, restButStep>>

\* lines 50-55: Time::frame measures the delta and advances the resource
StepTimeFrame ==
    \E frame_duration \in 1..MaxFrameDelta :
        /\ Ran("time_frame", st_pc + 1)
        /\ st_delta' = frame_duration
        /\ st_time' = st_time + frame_duration
    /\ UNCHANGED <<st_should_tick, st_pass, st_timers, st_last_tick,
                   st_window_events, st_inputs, st_world_events,
                   st_window, st_despawned, st_scene_log,
                   st_systems_log, st_sent, st_had_despawned>>
    /\ UNCHANGED <<st_started, st_ever, st_forwarded, st_receiver, st_failed>>
    /\ UNCHANGED <<bufferVars, hierVars, animVars, runVars, restButStep>>

\* line 56
StepTimersAddDelta ==
    /\ Ran("timers_add_delta", st_pc + 1)
    /\ st_timers' = st_timers + st_delta
    /\ UNCHANGED <<st_should_tick, st_pass, st_time, st_delta, st_last_tick,
                   st_window_events, st_inputs, st_world_events,
                   st_window, st_despawned, st_scene_log,
                   st_systems_log, st_sent, st_had_despawned>>
    /\ UNCHANGED <<st_started, st_ever, st_forwarded, st_receiver, st_failed>>
    /\ UNCHANGED <<bufferVars, hierVars, animVars, runVars, restButStep>>

\* line 57: the queued window events are drained into the inputs and one
\* message carries them to the rendering thread
StepSendWindowEvents ==
    /\ Ran("send_window_events", st_pc + 1)
    /\ st_sent' = Append(st_sent, [kind |-> "events", ids |-> <<>>])
    /\ st_failed' = failed_after("events")
    /\ st_inputs' = (st_inputs \/ st_window_events)
    /\ st_window_events' = FALSE
    /\ UNCHANGED <<st_should_tick, st_pass, st_time, st_timers, st_delta,
                   st_last_tick, st_world_events, st_window,
                   st_despawned, st_scene_log, st_systems_log,
                   st_had_despawned>>
    /\ UNCHANGED <<st_started, st_ever, st_forwarded, st_receiver>>
    /\ UNCHANGED <<bufferVars, hierVars, animVars, runVars, restButStep>>

\* line 58
StepSceneUpdate(requests) ==
    /\ Ran("scene_update", st_pc + 1)
    /\ ApplySceneAction("Update", requests)
    /\ UNCHANGED <<st_should_tick, st_pass, st_time, st_timers, st_delta,
                   st_last_tick, st_window_events, st_inputs,
                   st_systems_log, st_sent, st_had_despawned>>
    /\ UNCHANGED <<st_started, st_forwarded, st_receiver, st_failed>>
    /\ UNCHANGED <<bufferVars, hierVars, animVars, runVars, restButStep>>

\* line 59
StepSchedulerExecute(requests) ==
    /\ Ran("scheduler_execute", st_pc + 1)
    /\ st_systems_log' = st_systems_log \o scheduler_execute
    /\ \E req \in requests :
        /\ st_despawned' = despawned_after(req)
        /\ st_ever' = ever_after(req, "systems")
        /\ st_world_events' = (st_world_events \/ req = "event")
        /\ st_window' = window_after(req)
    /\ UNCHANGED <<st_should_tick, st_pass, st_time, st_timers, st_delta,
                   st_last_tick, st_window_events, st_inputs, st_scene_log,
                   st_sent, st_had_despawned>>
    /\ UNCHANGED <<st_started, st_forwarded, st_receiver, st_failed>>
    /\ UNCHANGED <<bufferVars, hierVars, animVars, runVars, restButStep>>

\* line 60
StepSceneLateUpdate(requests) ==
    /\ Ran("scene_late_update", st_pc + 1)
    /\ ApplySceneAction("LateUpdate", requests)
    /\ UNCHANGED <<st_should_tick, st_pass, st_time, st_timers, st_delta,
                   st_last_tick, st_window_events, st_inputs,
                   st_systems_log, st_sent, st_had_despawned>>
    /\ UNCHANGED <<st_started, st_forwarded, st_receiver, st_failed>>
    /\ UNCHANGED <<bufferVars, hierVars, animVars, runVars, restButStep>>

\* line 61 and lines 121-135: the pending requests are applied
StepUpdateCursor ==
    /\ Ran("update_cursor", st_pc + 1)
    /\ st_window' = update_cursor(st_window)
    /\ UNCHANGED <<st_should_tick, st_pass, st_time, st_timers, st_delta,
                   st_last_tick, st_window_events, st_inputs,
                   st_world_events, st_despawned, st_scene_log,
                   st_systems_log, st_sent, st_had_despawned>>
    /\ UNCHANGED <<st_started, st_ever, st_forwarded, st_receiver, st_failed>>
    /\ UNCHANGED <<bufferVars, hierVars, animVars, runVars, restButStep>>

\* lines 64-68: the scene gets FixedUpdate when the fixed interval elapsed
StepFixedUpdate(requests) ==
    /\ Ran("fixed_update", st_pc + 1)
    /\ \E due \in BOOLEAN :
        IF due THEN ApplySceneAction("FixedUpdate", requests)
        ELSE UNCHANGED <<st_scene_log, st_despawned, st_world_events,
                         st_window, st_ever>>
    /\ UNCHANGED <<st_should_tick, st_pass, st_time, st_timers, st_delta,
                   st_last_tick, st_window_events, st_inputs,
                   st_systems_log, st_sent, st_had_despawned>>
    /\ UNCHANGED <<st_started, st_forwarded, st_receiver, st_failed>>
    /\ UNCHANGED <<bufferVars, hierVars, animVars, runVars, restButStep>>

\* lines 70-78: one message with the draw preparation when rendering is due
StepRender ==
    /\ Ran("render", st_pc + 1)
    /\ \E due \in BOOLEAN :
        IF due
        THEN /\ st_sent' = Append(st_sent, [kind |-> "draw", ids |-> <<>>])
             /\ st_failed' = failed_after("draw")
        ELSE UNCHANGED <<st_sent, st_failed>>
    /\ UNCHANGED <<st_should_tick, st_pass, st_time, st_timers, st_delta,
                   st_last_tick, st_window_events, st_inputs,
                   st_world_events, st_window, st_despawned,
                   st_scene_log, st_systems_log, st_had_despawned>>
    /\ UNCHANGED <<st_started, st_ever, st_forwarded, st_receiver>>
    /\ UNCHANGED <<bufferVars, hierVars, animVars, runVars, restButStep>>

\* line 80: the second test of should_tick
StepEndOfFrame ==
    /\ Ran("end_of_frame",
           IF st_should_tick THEN st_pc + 1
           ELSE StatementIndex("picking_update"))
    /\ UNCHANGED <<st_should_tick, st_pass, st_time, st_timers, st_delta,
                   st_last_tick, st_window_events, st_inputs,
                   st_world_events, st_window, st_despawned,
                   st_scene_log, st_systems_log, st_sent, st_had_despawned>>
    /\ UNCHANGED <<st_started, st_ever, st_forwarded, st_receiver, st_failed>>
    /\ UNCHANGED <<bufferVars, hierVars, animVars, runVars, restButStep>>

\* line 81
StepResetInputs ==
    /\ Ran("reset_inputs", st_pc + 1)
    /\ st_inputs' = FALSE
    /\ UNCHANGED <<st_should_tick, st_pass, st_time, st_timers, st_delta,
                   st_last_tick, st_window_events, st_world_events,
                   st_window, st_despawned, st_scene_log,
                   st_systems_log, st_sent, st_had_despawned>>
    /\ UNCHANGED <<st_started, st_ever, st_forwarded, st_receiver, st_failed>>
    /\ UNCHANGED <<bufferVars, hierVars, animVars, runVars, restButStep>>

\* line 82
StepEventsCleanup ==
    /\ Ran("events_cleanup", st_pc + 1)
    /\ st_world_events' = FALSE
    /\ UNCHANGED <<st_should_tick, st_pass, st_time, st_timers, st_delta,
                   st_last_tick, st_window_events, st_inputs,
                   st_window, st_despawned, st_scene_log,
                   st_systems_log, st_sent, st_had_despawned>>
    /\ UNCHANGED <<st_started, st_ever, st_forwarded, st_receiver, st_failed>>
    /\ UNCHANGED <<bufferVars, hierVars, animVars, runVars, restButStep>>

\* lines 83-84
StepSceneEndFrame(requests) ==
    /\ Ran("scene_end_frame", st_pc + 1)
    /\ ApplySceneAction("EndFrame", requests)
    /\ UNCHANGED <<st_should_tick, st_pass, st_time, st_timers, st_delta,
                   st_last_tick, st_window_events, st_inputs,
                   st_systems_log, st_sent, st_had_despawned>>
    /\ UNCHANGED <<st_started, st_forwarded, st_receiver, st_failed>>
    /\ UNCHANGED <<bufferVars, hierVars, animVars, runVars, restButStep>>

\* line 85: the limiter records the tick
StepLimiterTick ==
    /\ Ran("limiter_tick", st_pc + 1)
    /\ st_last_tick' = st_time
    /\ UNCHANGED <<st_should_tick, st_pass, st_time, st_timers, st_delta,
                   st_window_events, st_inputs, st_world_events,
                   st_window, st_despawned, st_scene_log,
                   st_systems_log, st_sent, st_had_despawned>>
    /\ UNCHANGED <<st_started, st_ever, st_forwarded, st_receiver, st_failed>>
    /\ UNCHANGED <<bufferVars, hierVars, animVars, runVars, restButStep>>

\* lines 86-88: the despawned ids leave in one message, when there are any
\* line 87 with the result of the send dropped as at lines 57 and 75
StepTakeDespawned_failure_ignored ==
    /\ LET e == take_despawned(st_despawned)
       IN /\ Ran("take_despawned",
                 IF e.some /\ FALSE THEN Panicked ELSE st_pc + 1)
          /\ st_had_despawned' = e.some
          /\ st_sent' = IF e.some
                        THEN Append(st_sent,
                                    [kind |-> "despawn", ids |-> e.entities])
                        ELSE st_sent
          /\ st_failed' = IF e.some THEN failed_after("despawn") ELSE st_failed
          /\ st_forwarded' = IF e.some /\ send_is_ok(st_receiver)
                             THEN st_forwarded \o e.entities
                             ELSE st_forwarded
    /\ st_despawned' = <<>>
    /\ UNCHANGED <<st_should_tick, st_pass, st_time, st_timers, st_delta,
                   st_last_tick, st_window_events, st_inputs,
                   st_world_events, st_window, st_scene_log,
                   st_systems_log>>
    /\ UNCHANGED <<st_started, st_ever, st_receiver>>
    /\ UNCHANGED <<bufferVars, hierVars, animVars, runVars, restButStep>>

\* lines 86-88: the despawned ids leave in one message, when there are any;
\* the result of the send is unwrapped
StepTakeDespawned ==
    /\ LET e == take_despawned(st_despawned)
       IN /\ Ran("take_despawned",
                 IF e.some /\ ~send_is_ok(st_receiver) THEN Panicked ELSE st_pc + 1)
          /\ st_had_despawned' = e.some
          /\ st_sent' = IF e.some
                        THEN Append(st_sent,
                                    [kind |-> "despawn", ids |-> e.entities])
                        ELSE st_sent
          /\ st_failed' = IF e.some THEN failed_after("despawn") ELSE st_failed
          /\ st_forwarded' = IF e.some /\ send_is_ok(st_receiver)
                             THEN st_forwarded \o e.entities
                             ELSE st_forwarded
    /\ st_despawned' = <<>>
    /\ UNCHANGED <<st_should_tick, st_pass, st_time, st_timers, st_delta,
                   st_last_tick, st_window_events, st_inputs,
                   st_world_events, st_window, st_scene_log,
                   st_systems_log>>
    /\ UNCHANGED <<st_started, st_ever, st_receiver>>
    /\ UNCHANGED <<bufferVars, hierVars, animVars, runVars, restButStep>>

\* lines 90-92
StepPickingUpdate ==
    /\ \E status \in BOOLEAN :
        IF status
        THEN /\ Ran("picking_update",
                    IF send_is_ok(st_receiver) THEN st_pc + 1 ELSE Panicked)
             /\ st_sent' = Append(st_sent, [kind |-> "picking", ids |-> <<>>])
             /\ st_failed' = failed_after("picking")
        ELSE /\ Ran("picking_update", st_pc + 1)
             /\ UNCHANGED <<st_sent, st_failed>>
    /\ UNCHANGED <<st_should_tick, st_pass, st_time, st_timers, st_delta,
                   st_last_tick, st_window_events, st_inputs,
                   st_world_events, st_window, st_despawned,
                   st_scene_log, st_systems_log, st_had_despawned>>
    /\ UNCHANGED <<st_started, st_ever, st_forwarded, st_receiver>>
    /\ UNCHANGED <<bufferVars, hierVars, animVars, runVars, restButStep>>

\* line 94, then the next pass of the loop starts with an empty history
StepSleep ==
    /\ AtStatement("sleep")
    /\ st_pass < MaxFramePasses
    /\ st_pass' = st_pass + 1
    /\ st_pc' = 1
    /\ st_log' = <<>>
    /\ st_scene_log' = <<>>
    /\ st_systems_log' = <<>>
    /\ st_sent' = <<>>
    /\ st_had_despawned' = FALSE
    /\ st_failed' = <<>>
    /\ UNCHANGED <<st_should_tick, st_time, st_timers, st_delta,
                   st_last_tick, st_window_events, st_inputs,
                   st_world_events, st_window, st_despawned>>
    /\ UNCHANGED <<st_started, st_ever, st_forwarded, st_receiver>>
    /\ UNCHANGED <<bufferVars, hierVars, animVars, runVars, restButStep>>

\* the rendering thread terminates and its receiver is dropped
RenderingThreadEnds ==
    /\ st_receiver
    /\ st_pc >= 1
    /\ st_receiver' = FALSE
    /\ UNCHANGED <<st_pc, st_should_tick, st_pass, st_time, st_timers,
                   st_delta, st_last_tick, st_window_events, st_inputs,
                   st_world_events, st_window, st_despawned, st_log,
                   st_scene_log, st_systems_log, st_sent, st_had_despawned>>
    /\ UNCHANGED <<st_started, st_ever, st_forwarded, st_failed>>
    /\ UNCHANGED <<bufferVars, hierVars, animVars, runVars, restButStep>>

StepNext ==
    \/ WindowEventArrives
    \/ RenderingThreadEnds
    \/ StepSetup(SceneRequests)
    \/ StepComputeColorPickedEntity
    \/ StepIsMinTick
    \/ StepTimeFrame
    \/ StepTimersAddDelta
    \/ StepSendWindowEvents
    \/ StepSceneUpdate(SceneRequests)
    \/ StepSchedulerExecute(SceneRequests)
    \/ StepSceneLateUpdate(SceneRequests)
    \/ StepUpdateCursor
    \/ StepFixedUpdate(SceneRequests)
    \/ StepRender
    \/ StepEndOfFrame
    \/ StepResetInputs
    \/ StepEventsCleanup
    \/ StepSceneEndFrame(SceneRequests)
    \/ StepLimiterTick
    \/ StepTakeDespawned
    \/ StepPickingUpdate
    \/ StepSleep

\* the loop of a game that asks for cursor icons and window sizes, with a
\* rendering thread that stays
WindowNext ==
    \/ WindowEventArrives
    \/ StepSetup(WindowRequests)
    \/ StepComputeColorPickedEntity
    \/ StepIsMinTick
    \/ StepTimeFrame
    \/ StepTimersAddDelta
    \/ StepSendWindowEvents
    \/ StepSceneUpdate(WindowRequests)
    \/ StepSchedulerExecute(WindowRequests)
    \/ StepSceneLateUpdate(WindowRequests)
    \/ StepUpdateCursor
    \/ StepFixedUpdate(WindowRequests)
    \/ StepRender
    \/ StepEndOfFrame
    \/ StepResetInputs
    \/ StepEventsCleanup
    \/ StepSceneEndFrame(WindowRequests)
    \/ StepLimiterTick
    \/ StepTakeDespawned
    \/ StepPickingUpdate
    \/ StepSleep

\* the statements of `steps` that were run in this pass, in the order run
RanOf(steps) ==
    SelectSeq(st_log, LAMBDA s : \E i \in 1..Len(steps) : steps[i] = s)

IsPrefixOf(s, t) ==
    /\ Len(s) <= Len(t)
    /\ \A i \in 1..Len(s) : s[i] = t[i]

\* the statement was run in this pass
HasRun(name) == \E i \in 1..Len(st_log) : st_log[i] = name

\* the place of the statement in the history of this pass (0: not run)
RanAt(name) ==
    IF HasRun(name) THEN CHOOSE i \in 1..Len(st_log) : st_log[i] = name
    ELSE 0

\* the messages of one kind sent in this pass
SentOfKind(kind) == SelectSeq(st_sent, LAMBDA m : m.kind = kind)

\* C18: end-of-frame housekeeping runs in the passes that ran a variable
\* tick and only in them, after the render phase of the pass, in the order:
\* input edge events reset, one-shot world events cleaned up, scene
\* EndFrame, the limiter records the tick, and then the despawned ids are
\* sent in one message if and only if entities were despawned.
C18_EndOfFrameOrder ==
    /\ IsPrefixOf(RanOf(EndSteps), EndSteps)
    /\ RanOf(EndSteps) # <<>> =>
          /\ HasRun("time_frame")
          /\ HasRun("render")
          /\ RanAt("render") < RanAt("reset_inputs")
    /\ HasRun("picking_update") =>
          /\ RanOf(EndSteps) = (IF HasRun("time_frame") THEN EndSteps
                                ELSE <<>>)
          /\ Len(SentOfKind("despawn")) = (IF st_had_despawned THEN 1 ELSE 0)
          /\ HasRun("take_despawned") => st_despawned = <<>>
    /\ HasRun("take_despawned") /\ st_had_despawned =>
          /\ SentOfKind("despawn") # <<>>
          /\ SentOfKind("despawn")[1].ids # <<>>
          /\ \A i \in DOMAIN st_sent :
                st_sent[i].kind = "despawn" =>
                    \A j \in DOMAIN st_sent : j > i => st_sent[j].kind = "picking"
    /\ HasRun("scene_end_frame") =>
          /\ st_scene_log[Len(st_scene_log)] = "EndFrame"
          /\ ~HasRun("limiter_tick") => st_last_tick < st_time
    /\ HasRun("limiter_tick") => st_last_tick = st_time
    /\ HasRun("reset_inputs") => ~st_inputs
    /\ HasRun("events_cleanup") /\ ~HasRun("scene_end_frame") =>
          ~st_world_events

C18_Witness ==
    /\ HasRun("picking_update")
    /\ RanOf(EndSteps) = EndSteps
    /\ st_had_despawned
    /\ Len(st_sent[Len(st_sent)].ids) = 2
    /\ st_pass = 1

\* C19: a variable tick runs its steps in this order, each exactly once:
\* Time advanced by the measured delta, the same delta fed to the timers,
\* the window events drained and sent, scene Update, the scheduler (every
\* system once, in registration order), scene LateUpdate, the pending cursor
\* and size requests applied.
C19_VariableTickOrder ==
    /\ IsPrefixOf(RanOf(TickSteps), TickSteps)
    /\ HasRun("fixed_update") =>
          RanOf(TickSteps) = (IF st_should_tick THEN TickSteps ELSE <<>>)
    /\ HasRun("timers_add_delta") => st_timers = st_time
    /\ HasRun("time_frame") /\ ~HasRun("timers_add_delta") =>
          st_timers + st_delta = st_time
    /\ HasRun("send_window_events") =>
          /\ SentOfKind("events") = <<[kind |-> "events", ids |-> <<>>]>>
          /\ ~HasRun("scene_update") =>
                /\ st_sent = SentOfKind("events")
                /\ st_scene_log = <<>>
    /\ ~HasRun("send_window_events") =>
          /\ SentOfKind("events") = <<>>
          /\ ~HasRun("fixed_update") => st_sent = <<>>
    /\ HasRun("scene_update") /\ ~HasRun("fixed_update") =>
          IsPrefixOf(st_scene_log, <<"Update", "LateUpdate">>)
    /\ st_systems_log = (IF HasRun("scheduler_execute")
                         THEN [i \in Systems |-> i] ELSE <<>>)
    /\ HasRun("scheduler_execute") /\ ~HasRun("scene_late_update") =>
          st_scene_log = <<"Update">>
    /\ HasRun("update_cursor") /\ ~HasRun("fixed_update") =>
          /\ ~st_window.new_cursor
          /\ st_scene_log = <<"Update", "LateUpdate">>

\* the scene actions of a pass, in the order the loop body dispatches them
PassSceneActions == <<"Update", "LateUpdate", "FixedUpdate", "EndFrame">>

\* s keeps the order of t and takes each element of t at most once
IsSubSeqOf(s, t) ==
    \E f \in [1..Len(s) -> 1..Len(t)] :
        /\ \A i \in 1..Len(s) : s[i] = t[f[i]]
        /\ \A i, j \in 1..Len(s) : i < j => f[i] < f[j]

\* C21: the scene gets Start exactly once, in setup, before the first loop
\* pass: no statement of the loop body runs and no Update, LateUpdate,
\* FixedUpdate or EndFrame is dispatched before Start; and the scene
\* actions of a pass are dispatched in the order Update, LateUpdate,
\* FixedUpdate, EndFrame.
C21_StartOnceBeforeTheLoop ==
    /\ st_started <= 1
    /\ st_pc = 0 =>
          /\ st_started = 0
          /\ st_log = <<>>
          /\ st_scene_log = <<>>
          /\ st_pass = 0
    /\ st_pc >= 1 => st_started = 1
    /\ (st_log # <<>> \/ st_scene_log # <<>> \/ st_pass > 0) =>
          st_started = 1
    /\ IsSubSeqOf(st_scene_log, PassSceneActions)
    /\ HasRun("picking_update") =>
          /\ st_should_tick =>
                \/ st_scene_log = PassSceneActions
                \/ st_scene_log = <<"Update", "LateUpdate", "EndFrame">>
          /\ ~st_should_tick =>
                \/ st_scene_log = <<>>
                \/ st_scene_log = <<"FixedUpdate">>

C21_Witness ==
    /\ st_started = 1
    /\ st_pass = 1
    /\ HasRun("picking_update")
    /\ st_scene_log = PassSceneActions

\* the ids of a sequence
IdsOf(s) == {s[i] : i \in DOMAIN s}

\* C34: every despawned entity is forwarded to the rendering thread
\* exactly once: it waits in the despawned list or has left in a despawn
\* message, never both and never in two messages; at the end of a pass
\* that ran a variable tick every entity despawned so far has left,
\* those despawned in a fixed tick of a pass without variable tick
\* included
C34_DespawnedForwardedOnce ==
    st_pc # Panicked =>
    /\ \A i, j \in DOMAIN st_forwarded : i # j => st_forwarded[i] # st_forwarded[j]
    /\ \A i, j \in DOMAIN st_despawned : i # j => st_despawned[i] # st_despawned[j]
    /\ IdsOf(st_forwarded) \cap IdsOf(st_despawned) = {}
    /\ IdsOf(st_forwarded) \cup IdsOf(st_despawned) = DOMAIN st_ever
    /\ (st_should_tick /\ (AtStatement("picking_update") \/ AtStatement("sleep"))) =>
          /\ st_despawned = <<>>
          /\ IdsOf(st_forwarded) = DOMAIN st_ever
    /\ \A i \in DOMAIN st_sent :
          st_sent[i].kind = "despawn" =>
              /\ st_sent[i].ids # <<>>
              /\ IdsOf(st_sent[i].ids) \subseteq IdsOf(st_forwarded)

\* C39: once update_cursor has applied a pending cursor-icon or window-size
\* request, the request is cleared: right after update_cursor the Window
\* resource holds no request, and no request is applied a second time by
\* a later variable tick, also when only the window size was requested
C39_AppliedRequestIsCleared ==
    /\ (st_log # <<>> /\ st_log[Len(st_log)] = "update_cursor") =>
          /\ ~st_window.new_cursor
          /\ ~st_window.new_dimensions
    /\ st_window.dimensions_applied <= 1

\* the same for the cursor icon alone
C39_AppliedCursorRequestIsCleared ==
    /\ (st_log # <<>> /\ st_log[Len(st_log)] = "update_cursor") =>
          ~st_window.new_cursor

\* a window size requested alone was applied by two variable ticks and is
\* still pending
C39_WitnessSizeAppliedTwice ==
    /\ st_log # <<>>
    /\ st_log[Len(st_log)] = "update_cursor"
    /\ st_window = [new_cursor |-> FALSE, new_dimensions |-> TRUE,
                    dimensions_applied |-> 2]

\* a cursor icon and a window size requested together were applied once
\* and cleared
C39_WitnessBothCleared ==
    /\ st_log # <<>>
    /\ st_log[Len(st_log)] = "update_cursor"
    /\ st_window = [new_cursor |-> FALSE, new_dimensions |-> FALSE,
                    dimensions_applied |-> 1]

\* C35: with the receiver of the render channel gone, a failed send of
\* the windowing events or of the draw preparation is ignored and the loop
\* goes on to its next statements, while a failed send of the despawned
\* entities or of the picking status ends the simulation thread at once
C35_FailedSendFatalOnlyForDespawnAndPicking ==
    /\ st_failed # <<>> => ~st_receiver
    /\ \A i \in DOMAIN st_failed :
          /\ st_failed[i] \in {"events", "draw"} =>
                (i = Len(st_failed) => st_pc \in DOMAIN LoopBody)
          /\ st_failed[i] \in {"despawn", "picking"} =>
                /\ i = Len(st_failed)
                /\ st_pc = Panicked
    /\ st_pc = Panicked =>
          /\ st_failed # <<>>
          /\ st_failed[Len(st_failed)] \in {"despawn", "picking"}
          /\ st_sent[Len(st_sent)].kind = st_failed[Len(st_failed)]
    /\ st_pc \in (DOMAIN LoopBody) \cup {0, Panicked}

\* with the receiver gone since the pass before, the windowing events and
\* the draw preparation both failed to be sent, and the pass reached its
\* end
C35_Witness ==
    /\ ~st_receiver
    /\ st_pass = 1
    /\ AtStatement("sleep")
    /\ st_failed = <<"events", "draw">>
    /\ st_scene_log = PassSceneActions

\* the send of the despawned entities failed and ended the thread
C35_WitnessDespawn ==
    /\ st_pc = Panicked
    /\ st_failed = <<"events", "draw", "despawn">>

\* the send of the picking status failed and ended the thread
C35_WitnessPicking ==
    /\ st_pc = Panicked
    /\ st_failed[Len(st_failed)] = "picking"
    /\ ~st_should_tick

\* an entity despawned in the fixed tick of a pass without variable tick
\* left with one despawned in a callback of the next pass, which ticked
C34_Witness ==
    /\ AtStatement("sleep")
    /\ st_should_tick
    /\ Len(st_ever) = 2
    /\ st_ever[1].by = "FixedUpdate" /\ ~st_ever[1].tick
    /\ st_ever[1].pass < st_pass
    /\ st_ever[2].pass = st_pass
    /\ st_forwarded = <<1, 2>>
    /\ st_sent[Len(st_sent)] = [kind |-> "despawn", ids |-> <<1, 2>>]

C19_Witness ==
    /\ HasRun("fixed_update")
    /\ st_should_tick
    /\ RanOf(TickSteps) = TickSteps
    /\ st_pass = 1
    /\ st_delta = 2
    /\ st_inputs

\* ---------------------------------------------------------------------
\* The start of the application (src/application.rs, lines 75-163;
\* src/core/scion_runner.rs, lines 33-46 and 114-120)
\* ---------------------------------------------------------------------

NoWindowConfig == [some |-> FALSE, width |-> 0, height |-> 0, scale |-> 0]

\* the window configurations a ScionConfig may carry
WindowConfigs ==
    [some : {TRUE}, width : 1..MaxWindowWidth, height : 1..MaxWindowHeight,
     scale : 1..MaxScaleFactor]

\* the runner's `window: None`
NoWindow == NoWindowConfig

\* no Window resource in the world
NoWindowResource == [some |-> FALSE, width |-> 0, height |-> 0, dpi |-> 0]

\* Option::unwrap: the value, or a panic on None
unwrap(o) == [panic |-> ~o.some, value |-> o]

\* Window::new((width, height), scale_factor) of lines 115-118
window_resource(w) ==
    [some |-> TRUE, width |-> w.width, height |-> w.height, dpi |-> w.scale]

NothingCreated == [windows |-> 0, channels |-> 0, threads |-> 0]

LaunchIdle ==
    /\ la_config = NoWindowConfig
    /\ la_pc = "built"
    /\ la_thread = "none"
    /\ la_window = NoWindow
    /\ la_manager = FALSE
    /\ la_resource = NoWindowResource
    /\ la_scene_started = FALSE
    /\ la_passes = 0
    /\ la_panicked = FALSE
    /\ la_window_event_sender = FALSE
    /\ la_created = NothingCreated
    /\ la_resumed = 0

\* a built application, with or without a window configuration
LaunchInit ==
    /\ la_config \in {NoWindowConfig} \cup WindowConfigs
    /\ la_pc = "built"
    /\ la_thread = "none"
    /\ la_window = NoWindow
    /\ la_manager = FALSE
    /\ la_resource = NoWindowResource
    /\ la_scene_started = FALSE
    /\ la_passes = 0
    /\ la_panicked = FALSE
    /\ la_window_event_sender = FALSE
    /\ la_created = NothingCreated
    /\ la_resumed = 0

\* Scion::run: without a window configuration the runner is built with no
\* window and no rendering manager and launched in the calling thread;
\* with one, the event loop is started
ScionRun ==
    /\ la_pc = "built"
    /\ IF ~la_config.some
       THEN /\ la_window' = NoWindow
            /\ la_manager' = FALSE
            /\ la_thread' = "calling"
            /\ la_pc' = "launch_game_loop"
       ELSE /\ la_pc' = "event_loop"
            /\ UNCHANGED <<la_window, la_manager, la_thread>>
    /\ UNCHANGED <<la_config, la_resource, la_scene_started, la_passes,
                   la_panicked, la_window_event_sender, la_created,
                   la_resumed>>
    /\ UNCHANGED <<bufferVars, hierVars, animVars, runVars, restButLaunch>>

\* resumed without the test of lines 109-111
Resumed_without_sender_test ==
    /\ la_pc # "built"
    /\ la_config.some
    /\ la_resumed < MaxResumedCalls
    /\ la_resumed' = la_resumed + 1
    /\ IF FALSE
       THEN UNCHANGED <<la_window, la_manager, la_thread, la_pc,
                        la_window_event_sender, la_created>>
       ELSE /\ la_window' = unwrap(la_config).value
            /\ la_manager' = TRUE
            /\ la_thread' = "spawned"
            /\ la_pc' = "launch_game_loop"
            /\ la_created' = [windows |-> la_created.windows + 1,
                              channels |-> la_created.channels + 2,
                              threads |-> la_created.threads + 1]
            /\ la_window_event_sender' = TRUE
    /\ UNCHANGED <<la_config, la_resource, la_scene_started, la_passes,
                   la_panicked>>
    /\ UNCHANGED <<bufferVars, hierVars, animVars, runVars, restButLaunch>>

\* ApplicationHandler::resumed, which the windowing layer calls once the
\* event loop runs, and again whenever the application is resumed: the
\* first call creates the window, the rendering manager and the two
\* channels, spawns the thread of the runner and keeps the windowing-event
\* sender; a call that finds the sender returns (lines 109-111)
Resumed ==
    /\ la_pc # "built"
    /\ la_config.some
    /\ la_resumed < MaxResumedCalls
    /\ la_resumed' = la_resumed + 1
    /\ IF la_window_event_sender
       THEN UNCHANGED <<la_window, la_manager, la_thread, la_pc,
                        la_window_event_sender, la_created>>
       ELSE /\ la_window' = unwrap(la_config).value
            /\ la_manager' = TRUE
            /\ la_thread' = "spawned"
            /\ la_pc' = "launch_game_loop"
            /\ la_created' = [windows |-> la_created.windows + 1,
                              channels |-> la_created.channels + 2,
                              threads |-> la_created.threads + 1]
            /\ la_window_event_sender' = TRUE
    /\ UNCHANGED <<la_config, la_resource, la_scene_started, la_passes,
                   la_panicked>>
    /\ UNCHANGED <<bufferVars, hierVars, animVars, runVars, restButLaunch>>

\* launch_game_loop line 34, ScionRunner::setup: the Window resource is
\* built from self.window.as_ref().unwrap(), then the scene gets Start
Setup ==
    /\ la_pc = "launch_game_loop"
    /\ LET w == unwrap(la_window)
       IN IF w.panic
          THEN /\ la_panicked' = TRUE
               /\ la_pc' = "panicked"
               /\ UNCHANGED <<la_resource, la_scene_started>>
          ELSE /\ la_resource' = window_resource(w.value)
               /\ la_scene_started' = TRUE
               /\ la_pc' = "loop"
               /\ UNCHANGED la_panicked
    /\ UNCHANGED <<la_config, la_thread, la_window, la_manager, la_passes,
                   la_window_event_sender, la_created, la_resumed>>
    /\ UNCHANGED <<bufferVars, hierVars, animVars, runVars, restButLaunch>>

\* one pass of the loop of line 45
LoopPass ==
    /\ la_pc = "loop"
    /\ la_passes < MaxLaunchPasses
    /\ la_passes' = la_passes + 1
    /\ UNCHANGED <<la_config, la_pc, la_thread, la_window, la_manager,
                   la_resource, la_scene_started, la_panicked,
                   la_window_event_sender, la_created, la_resumed>>
    /\ UNCHANGED <<bufferVars, hierVars, animVars, runVars, restButLaunch>>

LaunchNext ==
    \/ ScionRun
    \/ Resumed
    \/ Setup
    \/ LoopPass

\* C36: however many times resumed is called, at most one window, one pair
\* of channels and one simulation thread are created: the first call
\* creates them and stores the windowing-event sender, and every later
\* call changes nothing of the application or of the runner
C36_ResumedCreatesOnce ==
    /\ [](/\ la_created.windows <= 1
          /\ la_created.channels <= 2
          /\ la_created.threads <= 1
          /\ la_resumed >= 1 =>
                /\ la_created = [windows |-> 1, channels |-> 2, threads |-> 1]
                /\ la_window_event_sender
                /\ la_thread = "spawned"
          /\ la_resumed = 0 =>
                /\ la_created = NothingCreated
                /\ ~la_window_event_sender)
    /\ [][(la_resumed >= 1 /\ la_resumed' # la_resumed) =>
            UNCHANGED <<la_config, la_pc, la_thread, la_window, la_manager,
                        la_resource, la_scene_started, la_passes,
                        la_panicked, la_window_event_sender, la_created>>
         ]_launchVars

\* resumed was called again and again while the loop of the runner ran
C36_Witness ==
    /\ la_resumed = MaxResumedCalls
    /\ la_passes >= 1
    /\ la_created.threads = 1

\* C20: without a window configuration Scion::run launches the game loop in
\* the calling thread with no window and no rendering manager, and setup
\* ends without a fatal error: the run never ends in a panic.
C20_WindowlessLoopStarts ==
    (~la_config.some /\ la_pc # "built") =>
        /\ la_thread = "calling"
        /\ la_window = NoWindow
        /\ ~la_manager
        /\ ~la_panicked

\* ---------------------------------------------------------------------
\* The transform pass
\* (src/graphics/rendering/scion2d/utils/prepare_transform_updates.rs)
\* ---------------------------------------------------------------------

TransformEntities == 1..NumTransformEntities

\* the component types the pass walks, in the order of lines 31-39; a
\* sprite that carries a Tile is a cell of a tilemap
SpriteType == "Sprite"

NoRenderable == "None"

TransformTypes ==
    << "Triangle", "Square", "Rectangle", SpriteType, "Line", "Polygon",
       "UiImage", "UiText", "Tilemap" >>

\* what an entity of the world may be: one renderable component or none,
\* with or without Transform, Dirty and (for a sprite) Tile
TransformWorlds ==
    [TransformEntities ->
        { c \in [kind : {TransformTypes[i] : i \in DOMAIN TransformTypes}
                         \cup {NoRenderable},
                 transform : BOOLEAN, dirty : BOOLEAN, tile : BOOLEAN] :
            c.tile => c.kind = SpriteType }]

NoCamera == [some |-> FALSE, translation |-> 0]

\* RenderingUpdate::TransformUniform { entity, uniform }
TransformUniform(entity, camera) == [entity |-> entity, camera |-> camera]

\* the entities a query yields, in the order of their ids
query(w, matches(_)) ==
    SelectSeq([i \in TransformEntities |-> i], matches)

\* lines 23-27: the camera is dirty when a recorded one exists and its
\* global translation differs
dirty_camera_never(old, camera) == FALSE

dirty_camera(old, camera) ==
    IF old.some THEN old.translation # camera ELSE FALSE

\* lines 55-73: query (&Transform, .., &T, .., &Dirty)
update_transforms_for_type(w, T, camera) ==
    LET q == query(w, LAMBDA e : /\ w[e].kind = T
                                 /\ w[e].transform
                                 /\ w[e].dirty)
    IN [i \in 1..Len(q) |-> TransformUniform(q[i], camera)]

\* lines 90-110: the same for Sprite, without the entities that have a Tile
update_transforms_for_sprites(w, camera) ==
    LET q == query(w, LAMBDA e : /\ w[e].kind = SpriteType
                                 /\ w[e].transform
                                 /\ w[e].dirty
                                 /\ ~w[e].tile)
    IN [i \in 1..Len(q) |-> TransformUniform(q[i], camera)]

\* lines 113-131: query (&Transform, .., &T, ..)
update_transforms_for_type_no_dirty_check(w, T, camera) ==
    LET q == query(w, LAMBDA e : w[e].kind = T /\ w[e].transform)
    IN [i \in 1..Len(q) |-> TransformUniform(q[i], camera)]

\* lines 133-153
update_transforms_for_sprites_no_dirty_check(w, camera) ==
    LET q == query(w, LAMBDA e : /\ w[e].kind = SpriteType
                                 /\ w[e].transform
                                 /\ ~w[e].tile)
    IN [i \in 1..Len(q) |-> TransformUniform(q[i], camera)]

\* lines 20-53
transform_call(old, w, camera) ==
    IF dirty_camera(old, camera)
    THEN update_transforms_for_type_no_dirty_check(w, "Triangle", camera)
         \o update_transforms_for_type_no_dirty_check(w, "Square", camera)
         \o update_transforms_for_type_no_dirty_check(w, "Rectangle", camera)
         \o update_transforms_for_sprites_no_dirty_check(w, camera)
         \o update_transforms_for_type_no_dirty_check(w, "Line", camera)
         \o update_transforms_for_type_no_dirty_check(w, "Polygon", camera)
         \o update_transforms_for_type_no_dirty_check(w, "UiImage", camera)
         \o update_transforms_for_type_no_dirty_check(w, "UiText", camera)
         \o update_transforms_for_type_no_dirty_check(w, "Tilemap", camera)
    ELSE update_transforms_for_type(w, "Triangle", camera)
         \o update_transforms_for_type(w, "Square", camera)
         \o update_transforms_for_type(w, "Rectangle", camera)
         \o update_transforms_for_sprites(w, camera)
         \o update_transforms_for_type(w, "Line", camera)
         \o update_transforms_for_type(w, "Polygon", camera)
         \o update_transforms_for_type(w, "UiImage", camera)
         \o update_transforms_for_type(w, "UiText", camera)
         \o update_transforms_for_type(w, "Tilemap", camera)

TransformIdle ==
    /\ tr_world = [e \in TransformEntities |->
                     [kind |-> NoRenderable, transform |-> FALSE,
                      dirty |-> FALSE, tile |-> FALSE]]
    /\ tr_camera = 0
    /\ tr_recorded = NoCamera
    /\ tr_before = NoCamera
    /\ tr_updates = <<>>
    /\ tr_pc = "logic"

\* a world of entities, a camera at the origin, no pass run yet
TransformInit ==
    /\ tr_world \in TransformWorlds
    /\ tr_camera = 0
    /\ tr_recorded = NoCamera
    /\ tr_before = NoCamera
    /\ tr_updates = <<>>
    /\ tr_pc = "logic"

\* the game logic moves or otherwise changes an entity: it gets Dirty
TransformMarkDirty(e) ==
    /\ tr_pc = "logic"
    /\ ~tr_world[e].dirty
    /\ tr_world' = [tr_world EXCEPT ![e].dirty = TRUE]
    /\ UNCHANGED <<tr_camera, tr_recorded, tr_before, tr_updates, tr_pc>>
    /\ UNCHANGED <<bufferVars, hierVars, animVars, runVars, restButTransform>>

\* the game logic moves the camera
TransformMoveCamera ==
    /\ tr_pc = "logic"
    /\ \E x \in 0..MaxCameraX :
        /\ x # tr_camera
        /\ tr_camera' = x
    /\ UNCHANGED <<tr_world, tr_recorded, tr_before, tr_updates, tr_pc>>
    /\ UNCHANGED <<bufferVars, hierVars, animVars, runVars, restButTransform>>

\* the pass: call computes the updates, and the pre-renderer records the
\* camera it returns
TransformPass ==
    /\ tr_pc = "logic"
    /\ tr_updates' = transform_call(tr_recorded, tr_world, tr_camera)
    /\ tr_before' = tr_recorded
    /\ tr_recorded' = [some |-> TRUE, translation |-> tr_camera]
    /\ tr_pc' = "sent"
    /\ UNCHANGED <<tr_world, tr_camera>>
    /\ UNCHANGED <<bufferVars, hierVars, animVars, runVars, restButTransform>>

\* the updates leave for the rendering thread and the Dirty markers are
\* removed
TransformCleanup ==
    /\ tr_pc = "sent"
    /\ tr_world' = [e \in TransformEntities |->
                      [tr_world[e] EXCEPT !.dirty = FALSE]]
    /\ tr_updates' = <<>>
    /\ tr_pc' = "logic"
    /\ UNCHANGED <<tr_camera, tr_recorded, tr_before>>
    /\ UNCHANGED <<bufferVars, hierVars, animVars, runVars, restButTransform>>

TransformNext ==
    \/ \E e \in TransformEntities : TransformMarkDirty(e)
    \/ TransformMoveCamera
    \/ TransformPass
    \/ TransformCleanup

\* a renderable entity: it has a component of one of the types the
\* renderer draws by itself (a sprite that is a cell of a tilemap is drawn
\* with its tilemap)
IsRenderable(e) ==
    /\ tr_world[e].kind # NoRenderable
    /\ ~tr_world[e].tile

\* the camera moved since the pass before the last one run
CameraMoved == tr_before.some /\ tr_before.translation # tr_camera

\* the number of updates of the last pass for the entity
TransformUpdatesOf(e) ==
    Len(SelectSeq(tr_updates, LAMBDA u : u.entity = e))

C22_WitnessNoMove ==
    /\ tr_pc = "sent"
    /\ ~CameraMoved
    /\ tr_before.some
    /\ \E e, f \in TransformEntities :
          /\ TransformUpdatesOf(e) = 1
          /\ IsRenderable(f) /\ tr_world[f].transform
          /\ TransformUpdatesOf(f) = 0

\* the state of the parts added to the model after the game loop, as
\* constructed
\* ---------------------------------------------------------------------
\* The texts of the UI synchronised with the resources
\* (src/core/systems/ui_text_system.rs, lines 21-28, and
\* src/graphics/components/ui/ui_text.rs)
\* ---------------------------------------------------------------------
SyncEntities == 1..NumTexts

Digits == <<"0", "1", "2", "3", "4", "5", "6", "7", "8", "9">>

\* usize::to_string
RECURSIVE to_string(_)
to_string(n) ==
    IF n < 10 THEN Digits[n + 1]
    ELSE to_string(n \div 10) \o Digits[(n % 10) + 1]

\* UiText::sync_fn is None
NoSyncFn == "None"

\* the synchronisation functions given to sync_value: the score of a
\* resource as text (the one of the test ui_text_synchronized), and one
\* that uses its `&mut Resources` to count its calls, up to MaxScore
SyncFns == {"score", "next_score"}

\* function(resources): the String returned and the resources it leaves
call_sync_fn(function, resources) ==
    IF function = "score"
    THEN [value |-> to_string(resources.score), resources |-> resources]
    ELSE [value |-> to_string(resources.score),
          resources |-> [resources EXCEPT !.score =
                            IF @ < MaxScore THEN @ + 1 ELSE @]]

\* the texts a UiText holds: the one it was built with, or a score
SyncStrings == {"abf"} \cup {to_string(n) : n \in 0..MaxScore}

\* UiText::set_text marking the text dirty whatever the value
set_text_always_dirty(ui_text, text) ==
    [ui_text EXCEPT !.text = text, !.dirty = TRUE]

\* UiText::set_text
set_text(ui_text, text) ==
    IF text # ui_text.text
    THEN [ui_text EXCEPT !.text = text, !.dirty = TRUE]
    ELSE ui_text

\* the loop of sync_text_value_system over the UiTexts in the order the
\* query gives them
RECURSIVE sync_loop(_, _, _, _, _)
sync_loop(texts, resources, calls, order, i) ==
    IF i > Len(order) THEN [texts |-> texts, resources |-> resources, calls |-> calls]
    ELSE LET e == order[i]
             ui_text == texts[e]
         IN  IF ui_text.sync_fn # NoSyncFn
             THEN LET r == call_sync_fn(ui_text.sync_fn, resources)
                  IN  sync_loop([texts EXCEPT ![e] = set_text(ui_text, r.value)],
                                r.resources,
                                Append(calls, [entity |-> e, resources |-> resources]),
                                order, i + 1)
             ELSE sync_loop(texts, resources, calls, order, i + 1)

sync_text_value_system(texts, resources, order) ==
    sync_loop(texts, resources, <<>>, order, 1)

\* the orders in which a query may give the entities
QueryOrders ==
    {o \in [SyncEntities -> SyncEntities] : \A a, b \in SyncEntities : a # b => o[a] # o[b]}

SyncIdle ==
    /\ sx_texts = <<>>
    /\ sx_resources = [score |-> 0]
    /\ sx_before = <<>>
    /\ sx_calls = <<>>
    /\ sx_pc = "idle"

\* a world of UiTexts, some built with sync_value, some already rendered
\* (clean), and a resource holding a score
SyncInit ==
    /\ sx_texts \in [SyncEntities ->
          [text : SyncStrings, dirty : BOOLEAN, sync_fn : SyncFns \cup {NoSyncFn}]]
    /\ sx_resources \in [score : 0..MaxScore]
    /\ sx_before = sx_texts
    /\ sx_calls = <<>>
    /\ sx_pc = "idle"

SyncTextValueSystem ==
    /\ \E order \in QueryOrders :
          LET r == sync_text_value_system(sx_texts, sx_resources, order)
          IN  /\ sx_texts' = r.texts
              /\ sx_resources' = r.resources
              /\ sx_calls' = r.calls
    /\ sx_before' = sx_texts
    /\ sx_pc' = "synced"
    /\ UNCHANGED <<bufferVars, hierVars, animVars, runVars, restButSync>>

\* the game logic changes the score
SyncSetScore(score) ==
    /\ score # sx_resources.score
    /\ sx_resources' = [sx_resources EXCEPT !.score = score]
    /\ sx_pc' = "idle"
    /\ UNCHANGED <<sx_texts, sx_before, sx_calls>>
    /\ UNCHANGED <<bufferVars, hierVars, animVars, runVars, restButSync>>

\* the pre-renderer uploaded the texts and cleared their dirty flags
SyncRendered ==
    /\ \E e \in SyncEntities : sx_texts[e].dirty
    /\ sx_texts' = [e \in SyncEntities |-> [sx_texts[e] EXCEPT !.dirty = FALSE]]
    /\ sx_pc' = "idle"
    /\ UNCHANGED <<sx_resources, sx_before, sx_calls>>
    /\ UNCHANGED <<bufferVars, hierVars, animVars, runVars, restButSync>>

SyncNext ==
    \/ SyncTextValueSystem
    \/ \E score \in 0..MaxScore : SyncSetScore(score)
    \/ SyncRendered

\* the calls the last run made for an entity
SyncCallsOf(e) == {i \in DOMAIN sx_calls : sx_calls[i].entity = e}

\* C30: after sync_text_value_system every UiText that has a
\* synchronisation function holds the value the function returned for the
\* resources it was called on (called once; the resources of the end of
\* the run when no function changes them) and is dirty exactly when that
\* value differs from its text before or it was dirty before; a UiText
\* without function keeps its text and its dirty flag
C30_SyncedTextHoldsFunctionValue ==
    sx_pc = "synced" =>
        \A e \in SyncEntities :
            LET old == sx_before[e]
                new == sx_texts[e]
            IN  IF old.sync_fn = NoSyncFn
                THEN new = old /\ SyncCallsOf(e) = {}
                ELSE /\ Cardinality(SyncCallsOf(e)) = 1
                     /\ \A i \in SyncCallsOf(e) :
                           new.text = call_sync_fn(old.sync_fn, sx_calls[i].resources).value
                     /\ (\A o \in SyncEntities : sx_before[o].sync_fn # "next_score")
                           => new.text = call_sync_fn(old.sync_fn, sx_resources).value
                     /\ new.dirty <=> (old.dirty \/ new.text # old.text)
                     /\ new.sync_fn = old.sync_fn

\* the run of the test ui_text_synchronized: a clean text "abf" with the
\* score function becomes the score and dirty, next to a text without
\* function that stays as it was
C30_Witness ==
    /\ sx_pc = "synced"
    /\ \E e, o \in SyncEntities :
          /\ sx_before[e] = [text |-> "abf", dirty |-> FALSE, sync_fn |-> "score"]
          /\ sx_texts[e] = [text |-> to_string(sx_resources.score), dirty |-> TRUE,
                            sync_fn |-> "score"]
          /\ sx_before[o].sync_fn = NoSyncFn
          /\ sx_texts[o] = sx_before[o]

\* a clean text that already holds the value stays clean
C30_WitnessUnchanged ==
    /\ sx_pc = "synced"
    /\ \E e \in SyncEntities :
          /\ sx_before[e].sync_fn = "score"
          /\ ~sx_before[e].dirty
          /\ sx_texts[e] = sx_before[e]
          /\ sx_texts[e].text = to_string(sx_resources.score)

\* ---------------------------------------------------------------------
\* The command buffer (src/core/command_buffer.rs)
\* ---------------------------------------------------------------------
CommandEntities == 1..NumCommandEntities

CommandValues == 1..MaxCommandValue

\* TransformOperation::default
TransformOperationDefault ==
    [x |-> None, y |-> None, z |-> None, delta_x |-> None, delta_y |-> None,
     angle |-> None, delta_angle |-> None, scale |-> None]

\* transforms.entry(entity).or_insert_with(TransformOperation::default)
entry_or_insert_default(transforms, entity) ==
    IF entity \in DOMAIN transforms THEN transforms[entity]
    ELSE TransformOperationDefault

\* Option::get_or_insert(0.0).add_assign(v)
get_or_insert_add_assign(option, v) ==
    IF option.some THEN Some(option.v + v) ELSE Some(0 + v)

set_x(transforms, entity, x) ==
    MapInsert(transforms, entity,
              [entry_or_insert_default(transforms, entity) EXCEPT !.x = Some(x)])

set_y(transforms, entity, y) ==
    MapInsert(transforms, entity,
              [entry_or_insert_default(transforms, entity) EXCEPT !.y = Some(y)])

set_z(transforms, entity, z) ==
    MapInsert(transforms, entity,
              [entry_or_insert_default(transforms, entity) EXCEPT !.z = Some(z)])

append_x(transforms, entity, x) ==
    MapInsert(transforms, entity,
              [entry_or_insert_default(transforms, entity) EXCEPT
                 !.delta_x = get_or_insert_add_assign(@, x)])

append_y(transforms, entity, y) ==
    MapInsert(transforms, entity,
              [entry_or_insert_default(transforms, entity) EXCEPT
                 !.delta_y = get_or_insert_add_assign(@, y)])

append_translation(transforms, entity, x, y) ==
    MapInsert(transforms, entity,
              [entry_or_insert_default(transforms, entity) EXCEPT
                 !.delta_x = get_or_insert_add_assign(@, x),
                 !.delta_y = get_or_insert_add_assign(@, y)])

append_vector(transforms, entity, vector) ==
    append_translation(transforms, entity, vector.x, vector.y)

append_angle(transforms, entity, angle) ==
    MapInsert(transforms, entity,
              [entry_or_insert_default(transforms, entity) EXCEPT
                 !.delta_angle = get_or_insert_add_assign(@, angle)])

set_angle(transforms, entity, angle) ==
    MapInsert(transforms, entity,
              [entry_or_insert_default(transforms, entity) EXCEPT !.angle = Some(angle)])

set_scale(transforms, entity, scale) ==
    MapInsert(transforms, entity,
              [entry_or_insert_default(transforms, entity) EXCEPT !.scale = Some(scale)])

\* the calls of TransformCommand a system may make: the method, the entity
\* and the arguments (b is used by the methods of two coordinates)
OneArgument ==
    {"set_x", "set_y", "set_z", "append_x", "append_y", "append_angle",
     "set_angle", "set_scale"}

TwoArguments == {"append_translation", "append_vector"}

TransformCommands ==
    [kind : OneArgument, entity : CommandEntities, a : CommandValues, b : {0}]
    \cup [kind : TwoArguments, entity : CommandEntities, a : CommandValues,
          b : CommandValues]

\* the map of the transform operations after the call
transform_command(transforms, c) ==
    CASE c.kind = "set_x" -> set_x(transforms, c.entity, c.a)
      [] c.kind = "set_y" -> set_y(transforms, c.entity, c.a)
      [] c.kind = "set_z" -> set_z(transforms, c.entity, c.a)
      [] c.kind = "append_x" -> append_x(transforms, c.entity, c.a)
      [] c.kind = "append_y" -> append_y(transforms, c.entity, c.a)
      [] c.kind = "append_translation" ->
            append_translation(transforms, c.entity, c.a, c.b)
      [] c.kind = "append_vector" ->
            append_vector(transforms, c.entity, Vector(c.a, c.b))
      [] c.kind = "append_angle" -> append_angle(transforms, c.entity, c.a)
      [] c.kind = "set_angle" -> set_angle(transforms, c.entity, c.a)
      [] c.kind = "set_scale" -> set_scale(transforms, c.entity, c.a)

\* CommandBuffer::default
CommandBufferDefault == [transforms |-> EmptyMap, parent_modified |-> EmptyMap]

\* drain returning a copy of the map
drain_cloning_the_map(buffer) ==
    [result |-> buffer.transforms, buffer |-> buffer]

\* CommandBuffer::drain: std::mem::take leaves the default of the map
drain(buffer) ==
    [result |-> buffer.transforms,
     buffer |-> [buffer EXCEPT !.transforms = EmptyMap]]

\* CommandBuffer::drain_parent_modified
drain_parent_modified(buffer) ==
    [result |-> buffer.parent_modified,
     buffer |-> [buffer EXCEPT !.parent_modified = EmptyMap]]

\* an entry of parent_modified: the children and the transform of a parent
ParentModified(children) == [children |-> children, transform |-> 0]

NoCommandCall ==
    [op |-> "none", result |-> EmptyMap, before |-> CommandBufferDefault,
     since |-> <<>>, again |-> FALSE]

CommandCalled(op, result) ==
    [op |-> op, result |-> result, before |-> command_buffer,
     since |-> cb_since, again |-> cb_last.op = op]

CommandIdle ==
    /\ command_buffer = CommandBufferDefault
    /\ cb_since = <<>>
    /\ cb_last = NoCommandCall

\* a system gives a transform command
CommandGiven(c) ==
    /\ Len(cb_since) < MaxCommands
    /\ command_buffer' =
          [command_buffer EXCEPT !.transforms = transform_command(@, c)]
    /\ cb_since' = Append(cb_since, c)
    /\ cb_last' = NoCommandCall
    /\ UNCHANGED <<bufferVars, hierVars, animVars, runVars, restButCommand>>

\* the transform of a parent with children is modified
CommandParentModified(entity) ==
    /\ entity \notin DOMAIN command_buffer.parent_modified
    /\ command_buffer' =
          [command_buffer EXCEPT !.parent_modified =
              MapInsert(@, entity,
                        ParentModified(<<CHOOSE e \in CommandEntities : e # entity>>))]
    /\ cb_last' = NoCommandCall
    /\ UNCHANGED cb_since
    /\ UNCHANGED <<bufferVars, hierVars, animVars, runVars, restButCommand>>

CommandDrain ==
    /\ LET r == drain(command_buffer)
       IN  /\ command_buffer' = r.buffer
           /\ cb_last' = CommandCalled("drain", r.result)
    /\ cb_since' = <<>>
    /\ UNCHANGED <<bufferVars, hierVars, animVars, runVars, restButCommand>>

CommandDrainParentModified ==
    /\ LET r == drain_parent_modified(command_buffer)
       IN  /\ command_buffer' = r.buffer
           /\ cb_last' = CommandCalled("drain_parent_modified", r.result)
    /\ UNCHANGED cb_since
    /\ UNCHANGED <<bufferVars, hierVars, animVars, runVars, restButCommand>>

CommandNext ==
    \/ \E c \in TransformCommands : CommandGiven(c)
    \/ \E entity \in CommandEntities : CommandParentModified(entity)
    \/ CommandDrain
    \/ CommandDrainParentModified

\* the last value the commands set a field of the entity to
LastSet(since, entity, kind) ==
    LET calls == {i \in DOMAIN since :
                    since[i].entity = entity /\ since[i].kind = kind}
    IN  IF calls = {} THEN None
        ELSE Some(since[CHOOSE i \in calls : \A j \in calls : j <= i].a)

\* what a command adds to delta_x, delta_y and delta_angle
AddedTo(field, c) ==
    CASE field = "delta_x" /\ c.kind \in {"append_x", "append_translation", "append_vector"}
            -> Some(c.a)
      [] field = "delta_y" /\ c.kind = "append_y" -> Some(c.a)
      [] field = "delta_y" /\ c.kind \in {"append_translation", "append_vector"}
            -> Some(c.b)
      [] field = "delta_angle" /\ c.kind = "append_angle" -> Some(c.a)
      [] OTHER -> None

\* the sum of what the commands added to a field of the entity
RECURSIVE SumAdded(_, _, _)
SumAdded(since, entity, field) ==
    IF since = <<>> THEN None
    ELSE LET before == SumAdded(SubSeq(since, 1, Len(since) - 1), entity, field)
             c == since[Len(since)]
             added == IF c.entity = entity THEN AddedTo(field, c) ELSE None
         IN  IF ~added.some THEN before
             ELSE IF before.some THEN Some(before.v + added.v)
             ELSE added

\* the one operation the commands given for an entity amount to
Merged(since, entity) ==
    [x |-> LastSet(since, entity, "set_x"),
     y |-> LastSet(since, entity, "set_y"),
     z |-> LastSet(since, entity, "set_z"),
     delta_x |-> SumAdded(since, entity, "delta_x"),
     delta_y |-> SumAdded(since, entity, "delta_y"),
     angle |-> LastSet(since, entity, "set_angle"),
     delta_angle |-> SumAdded(since, entity, "delta_angle"),
     scale |-> LastSet(since, entity, "set_scale")]

\* C40: drain returns the transform operations accumulated since the drain
\* before, one for every entity that was given a command and the merge of
\* its commands, and leaves the map of the transform operations empty and
\* the map of the modified parents as it was, so that a drain right after
\* a drain returns nothing; drain_parent_modified returns and empties the
\* map of the modified parents and leaves the transform operations
C40_DrainTakesTheTransformOperations ==
    /\ cb_last.op = "drain" =>
          /\ cb_last.result = cb_last.before.transforms
          /\ DOMAIN cb_last.result
                = {cb_last.since[i].entity : i \in DOMAIN cb_last.since}
          /\ \A e \in DOMAIN cb_last.result :
                cb_last.result[e] = Merged(cb_last.since, e)
          /\ command_buffer.transforms = EmptyMap
          /\ command_buffer.parent_modified = cb_last.before.parent_modified
          /\ cb_last.again => cb_last.result = EmptyMap
    /\ cb_last.op = "drain_parent_modified" =>
          /\ cb_last.result = cb_last.before.parent_modified
          /\ command_buffer.parent_modified = EmptyMap
          /\ command_buffer.transforms = cb_last.before.transforms

\* a drain that returned the merge of two commands for one entity and
\* left a modified parent in its map
C40_Witness ==
    /\ cb_last.op = "drain"
    /\ Len(cb_last.since) = MaxCommands
    /\ \E e \in CommandEntities :
          /\ DOMAIN cb_last.result = {e}
          /\ cb_last.result[e].delta_x = Some(3)
          /\ cb_last.result[e].delta_y = Some(2)
    /\ command_buffer.parent_modified # EmptyMap

\* a drain that returned one operation for each of two entities
C40_WitnessTwoEntities ==
    /\ cb_last.op = "drain"
    /\ DOMAIN cb_last.result = CommandEntities
    /\ \E e \in CommandEntities :
          /\ cb_last.result[e].x = Some(2)
          /\ cb_last.result[e].delta_x = None

\* a drain right after a drain that returned operations
C40_WitnessSecondDrain ==
    /\ cb_last.op = "drain"
    /\ cb_last.again
    /\ cb_last.result = EmptyMap

\* drain_parent_modified with transform operations waiting
C40_WitnessParentModified ==
    /\ cb_last.op = "drain_parent_modified"
    /\ cb_last.result # EmptyMap
    /\ command_buffer.transforms # EmptyMap

RestIdle ==
    PickIdle /\ LimInit /\ MoveIdle /\ TileIdle /\ StepIdle /\ LaunchIdle
    /\ TransformIdle /\ SyncIdle /\ CommandIdle

(***************************************************************************)
(* The specifications: each part of the engine runs on its own, the state  *)
(* of the other parts staying as constructed.                              *)
(***************************************************************************)
vars == <<bufferVars, hierVars, animVars, runVars, restVars>>

AnimIdle == animations = EmptyMap /\ anim_last = NoCall

\* the Animations component alone
InitAnimations == BufferInit /\ HierInit /\ AnimInit /\ RunnerIdle /\ RestIdle

SpecAnimations == InitAnimations /\ [][AnimNext]_vars

\* the game loop and the rendering thread
Init == RunnerInit /\ HierInit /\ AnimIdle /\ RestIdle

Spec == Init /\ [][RunnerNext]_vars

\* the buffer pass of the pre-renderer alone
InitBuffers == BufferInit /\ HierInit /\ AnimIdle /\ RunnerIdle /\ RestIdle

SpecBuffers == InitBuffers /\ [][BufferNext]_vars

\* the hierarchy functions alone
InitHierarchy == BufferInit /\ HierInit /\ AnimIdle /\ RunnerIdle /\ RestIdle

SpecHierarchy == InitHierarchy /\ [][HierNext]_vars

\* the colour-picking registry alone
InitPicking == BufferInit /\ HierInit /\ AnimIdle /\ RunnerIdle /\ RestIdle

\* the colour picking registry with ids reclaimed and given again
SpecReclaim == InitPicking /\ [][ReclaimNext]_vars

SpecPicking == InitPicking /\ [][PickNext]_vars

\* the frame limiter and the phases it gates
InitLimiter == BufferInit /\ HierInit /\ AnimIdle /\ RunnerIdle /\ RestIdle

SpecLimiter == InitLimiter /\ [][LimNext]_vars

\* a transform animation from construction to its end
InitMove ==
    BufferInit /\ HierInit /\ AnimIdle /\ RunnerIdle /\ PickIdle /\ LimInit /\ MoveInit
    /\ TileIdle /\ StepIdle /\ LaunchIdle /\ TransformIdle /\ SyncIdle /\ CommandIdle

SpecMove == InitMove /\ [][MoveNext]_vars

\* the depth bias of the tiles of a tilemap
InitTiles ==
    BufferInit /\ HierInit /\ AnimIdle /\ RunnerIdle /\ PickIdle /\ LimInit /\ MoveIdle
    /\ TileInit /\ StepIdle /\ LaunchIdle /\ TransformIdle /\ SyncIdle /\ CommandIdle

SpecTiles == InitTiles /\ [][TileNext]_vars

\* one pass of the game loop, statement by statement
InitSteps ==
    BufferInit /\ HierInit /\ AnimIdle /\ RunnerIdle /\ PickIdle /\ LimInit /\ MoveIdle
    /\ TileIdle /\ StepIdle /\ LaunchIdle /\ TransformIdle /\ SyncIdle /\ CommandIdle

SpecSteps == InitSteps /\ [][StepNext]_vars

\* the same loop for a game that asks for cursor icons and window sizes
SpecWindow == InitSteps /\ [][WindowNext]_vars

\* the start of the application, with and without a window
InitLaunch ==
    BufferInit /\ HierInit /\ AnimIdle /\ RunnerIdle /\ PickIdle /\ LimInit /\ MoveIdle
    /\ TileIdle /\ StepIdle /\ LaunchInit /\ TransformIdle /\ SyncIdle /\ CommandIdle

SpecLaunch == InitLaunch /\ [][LaunchNext]_vars

\* the transform pass over a world of entities
InitTransform ==
    BufferInit /\ HierInit /\ AnimIdle /\ RunnerIdle /\ PickIdle /\ LimInit /\ MoveIdle
    /\ TileIdle /\ StepIdle /\ LaunchIdle /\ TransformInit /\ SyncIdle /\ CommandIdle

SpecTransform == InitTransform /\ [][TransformNext]_vars

\* the synchronisation of the UI texts with the resources
InitSync ==
    BufferInit /\ HierInit /\ AnimIdle /\ RunnerIdle /\ PickIdle /\ LimInit /\ MoveIdle
    /\ TileIdle /\ StepIdle /\ LaunchIdle /\ TransformIdle /\ SyncInit /\ CommandIdle

SpecSync == InitSync /\ [][SyncNext]_vars

\* the command buffer alone
InitCommands == BufferInit /\ HierInit /\ AnimIdle /\ RunnerIdle /\ RestIdle

SpecCommands == InitCommands /\ [][CommandNext]_vars

====
